---- MODULE Spec2Model ----
(***************************************************************************)
(* Model of the Gaussian-mixture fitting core of OrganoidTracker:          *)
(*   src/autotrack/particle_detection/gaussian_fit.py  (residual model,    *)
(*       per-cluster fit, orchestrator over the watershed clusters)        *)
(*   src/particle_detection/gaussian_fit.py            (the Gaussian value *)
(*       type: constructor, to_list, translated, draw window)              *)
(*                                                                         *)
(* Abstractions, stated once:                                              *)
(*  - Volumes are one row of voxels: the z and y axes have size 1, so an   *)
(*    image is a sequence of samples, voxel x being element x + 1.  A      *)
(*    Gaussian keeps its 10 parameters; mu_y, mu_z and the off-diagonal    *)
(*    covariances are 0 in the inputs enumerated here.                     *)
(*  - Samples are integers.  a * exp(-d^2 / (2 * cov)) has no integer      *)
(*    form; gauss3d below is an integer bump with the same shape (maximal  *)
(*    a at the mean, symmetric, decreasing with distance, wider for a      *)
(*    larger covariance).                                                  *)
(*  - None is the empty tuple.                                             *)
(***************************************************************************)
EXTENDS Integers, Sequences, FiniteSets, TLC

(***************************************************************************)
(* Bounds of the model.                                                    *)
(***************************************************************************)
SizeX == 4          \* voxels in a volume
MaxVal == 2         \* largest sample of an input volume
MaxGaussians == 2   \* Gaussians encoded in an enumerated parameter vector
MaxSeeds == 3       \* seeds (ellipse stacks) of a watershed
SeedRadius == 1     \* radius of a seed
BlurRadius == 1     \* blur_radius handed to the orchestrator
CanvasX == 8        \* voxels of the image Gaussian objects are drawn into
MaxObjects == 3     \* Gaussian objects allocated in one behaviour
MaxDraws == 2       \* draw calls in one behaviour
MeanReach == 5      \* how far outside the image the mean of a drawn Gaussian lies
ShapeX == 3         \* voxels along x of the volume guesses are taken from
ShapeY == 2         \* voxels along y of that volume
MaxParticles == 2   \* particles handed to particles_to_gaussians
MaxLinks == 2       \* links of an experiment handed to compare_links
MantissaBits == 3   \* significant bits of a floating-point number
MaxOffset == 3      \* largest offset of a crop in its image, in voxels
MaxLog2Size == 1    \* log2 of the largest width and height of a volume to fit at low resolution
MaxDepth == 2       \* slices of such a volume

(***************************************************************************)
(* Program constants.                                                      *)
(***************************************************************************)
ParamsPerGaussian == 10
WindowSigmas == 3

None == << >>

Max(a, b) == IF a >= b THEN a ELSE b
Min(a, b) == IF a <= b THEN a ELSE b
Abs(a) == IF a >= 0 THEN a ELSE 0 - a

RECURSIVE SeqSum(_)
SeqSum(s) == IF s = << >> THEN 0 ELSE Head(s) + SeqSum(Tail(s))

\* params[i:j] of Python: 0-based, end exclusive, clamped to the sequence.
Slice(s, i, j) == SubSeq(s, i + 1, Min(j, Len(s)))

(***************************************************************************)
(* Gaussian: the value type.                                               *)
(***************************************************************************)
Gaussian(a, mu_x, mu_y, mu_z, cov_xx, cov_yy, cov_zz, cov_xy, cov_xz, cov_yz) ==
    [a |-> a, mu_x |-> mu_x, mu_y |-> mu_y, mu_z |-> mu_z,
     cov_xx |-> cov_xx, cov_yy |-> cov_yy, cov_zz |-> cov_zz,
     cov_xy |-> cov_xy, cov_xz |-> cov_xz, cov_yz |-> cov_yz]

\* Gaussian(*gaussian_params): ten positional arguments, no more, no fewer.
GaussianFromList(p) ==
    Gaussian(p[1], p[2], p[3], p[4], p[5], p[6], p[7], p[8], p[9], p[10])

to_list(g) ==
    << g.a, g.mu_x, g.mu_y, g.mu_z, g.cov_xx, g.cov_yy, g.cov_zz,
       g.cov_xy, g.cov_xz, g.cov_yz >>

translated(g, dx, dy, dz) ==
    LET new_gaussian == GaussianFromList(to_list(g))
    IN  [new_gaussian EXCEPT !.mu_x = @ + dx, !.mu_y = @ + dy, !.mu_z = @ + dz]

\* Gaussian.scaled: the mean is scaled, the covariance is left as it is
\* ("Todo: resize covariance matrix").
scaled_resizing_covariance(g, scale) ==
    LET new_gaussian == GaussianFromList(to_list(g))
    IN  [new_gaussian EXCEPT !.mu_x = @ * scale, !.mu_y = @ * scale, !.mu_z = @ * scale,
                             !.cov_xx = @ * scale, !.cov_yy = @ * scale,
                             !.cov_zz = @ * scale]
scaled(g, scale) ==
    LET new_gaussian == GaussianFromList(to_list(g))
    IN  [new_gaussian EXCEPT !.mu_x = @ * scale, !.mu_y = @ * scale, !.mu_z = @ * scale]

\* Gaussians as objects: heap is the sequence of the Gaussians allocated so
\* far, an object is its index.  translated and scaled allocate
\* new_gaussian = Gaussian(*self.to_list()), assign to its fields and return it.
Gaussian_translated_in_place(heap, this, dx, dy, dz) ==
    [heap |-> [heap EXCEPT ![this] = translated(heap[this], dx, dy, dz)],
     result |-> this]
Gaussian_translated(heap, this, dx, dy, dz) ==
    [heap |-> Append(heap, translated(heap[this], dx, dy, dz)),
     result |-> Len(heap) + 1]

Gaussian_scaled(heap, this, scale) ==
    [heap |-> Append(heap, scaled(heap[this], scale)),
     result |-> Len(heap) + 1]

\* Integer stand-in for a * exp(-1/2 * d^T cov^-1 d) on the row y = z = 0.
gauss3d(x, a, mu_x, cov_xx) ==
    LET d == x - mu_x IN (a * cov_xx) \div (cov_xx + d * d)

\* The truncation window of draw on an image of size_x voxels: [lo, hi).
WindowLo(g) == Max(0, g.mu_x - WindowSigmas * g.cov_xx)
WindowHi(g, size_x) == Min(size_x, g.mu_x + WindowSigmas * g.cov_xx)

\* _3d_gauss(pos, self.a, self.mu_x - offset_x, ...): the mean is taken
\* relative to the window.
Render_absolute_mean(g, size_x) ==
    LET offset_x == WindowLo(g)
        max_x == WindowHi(g, size_x)
    IN  [k \in 1..Max(0, max_x - offset_x) |->
                  gauss3d(k - 1, g.a, g.mu_x, g.cov_xx)]

\* The rendered sub-array of g for an image of size_x voxels.
Render(g, size_x) ==
    LET offset_x == WindowLo(g)
        max_x == WindowHi(g, size_x)
    IN  [k \in 1..Max(0, max_x - offset_x) |->
                  gauss3d(k - 1, g.a, g.mu_x - offset_x, g.cov_xx)]

\* image[offset_x:max_x] += sub
AddWindow(image, offset_x, sub) ==
    [i \in 1..Len(image) |->
              IF i - 1 >= offset_x /\ i - 1 < offset_x + Len(sub)
              THEN image[i] + sub[i - offset_x] ELSE image[i]]

\* image[offset_z:max_z, offset_y:max_y, offset_x:max_x] += gauss
add_render_assigning(image, offset_x, gauss) ==
    [i \in 1..Len(image) |->
              IF i - 1 >= offset_x /\ i - 1 < offset_x + Len(gauss)
              THEN gauss[i - offset_x] ELSE image[i]]
add_render(image, offset_x, gauss) == AddWindow(image, offset_x, gauss)

\* Gaussian.draw(image) of particle_detection.gaussian_fit: the image after
\* the call.
Gaussian_draw(image, g) == add_render(image, WindowLo(g), Render(g, Len(image)))

\* Gaussian.draw(image, cached_image): adds the render (the cached one when
\* given) into the window and returns it beside the image it wrote.
draw(image, g, cached_image) ==
    LET sub == IF cached_image = None THEN Render(g, Len(image)) ELSE cached_image
    IN  [image |-> AddWindow(image, WindowLo(g), sub), render |-> sub]

\* Integer stand-in for the derivative of the Gaussian to parameter
\* gradient_nr (0-based, to_list order) at voxel x of the row y = z = 0.
gauss3d_gradient(x, g, gradient_nr) ==
    LET d == x - g.mu_x
        v == gauss3d(x, g.a, g.mu_x, g.cov_xx)
    IN  CASE gradient_nr = 0 -> gauss3d(x, 1, g.mu_x, g.cov_xx)
          [] gradient_nr = 1 -> v * d
          [] gradient_nr = 4 -> v * d * d
          [] OTHER -> 0

\* Gaussian.draw_gradient(image, gradient_nr): adds the derivative image
\* into the same window.
draw_gradient(image, g, gradient_nr) ==
    LET offset_x == WindowLo(g)
        max_x == WindowHi(g, Len(image))
        sub == [k \in 1..Max(0, max_x - offset_x) |->
                         gauss3d_gradient(k - 1 + offset_x, g, gradient_nr)]
    IN  AddWindow(image, offset_x, sub)

(***************************************************************************)
(* A dict keyed by Gaussian (equality and hash over the 10 parameters).    *)
(***************************************************************************)
dict_new == << >>
dict_get(d, k) == IF k \in DOMAIN d THEN d[k] ELSE None
dict_put(d, k, v) == [j \in (DOMAIN d) \cup {k} |-> IF j = k THEN v ELSE d[j]]

(***************************************************************************)
(* _ModelAndImageDifference: the residual model of one target image.       *)
(* self is the record of its four fields.  An exception is the name of its *)
(* class, NoError when none was raised.                                    *)
(***************************************************************************)
NoError == ""

\* ndarray.astype(numpy.float64): a new array holding the same samples.
astype(data_image) == [i \in 1..Len(data_image) |-> data_image[i]]

\* ndarray.fill(value)
fill(array, value) == [i \in 1..Len(array) |-> value]

\* __init__: uninitialised is what numpy.empty_like leaves in the two scratch
\* buffers, which it does not initialise.
ModelAndImageDifference(data_image, uninitialised) ==
    [data_image |-> astype(data_image),
     scratch_image |-> fill(data_image, uninitialised),
     scratch_image_gradient |-> fill(data_image, uninitialised),
     last_gaussians |-> dict_new]

\* The chunks params[i:i + 10] for i in range(start, stop, 10) that the loop
\* of _draw_gaussians_to_scratch_image visits.
chunk_starts_floor(params) ==
    {i \in 0..Len(params) : i % ParamsPerGaussian = 0
                             /\ i + ParamsPerGaussian <= Len(params)}
chunk_starts(params) ==
    {i \in 0..Len(params) : i % ParamsPerGaussian = 0 /\ i < Len(params)}

\* dict.get(gaussian) on the renders of the previous call.
cache_lookup_by_mean(last_gaussians, gaussian) ==
    IF \E k \in DOMAIN last_gaussians : k.mu_x = gaussian.mu_x
    THEN last_gaussians[CHOOSE k \in DOMAIN last_gaussians : k.mu_x = gaussian.mu_x]
    ELSE None
cache_lookup(last_gaussians, gaussian) == dict_get(last_gaussians, gaussian)

\* self._scratch_image.fill(0) at the head of _draw_gaussians_to_scratch_image.
zeroed_scratch_skipped(scratch_image) == scratch_image
zeroed_scratch(scratch_image) == fill(scratch_image, 0)

\* The loop body of _draw_gaussians_to_scratch_image from chunk i on.  A
\* chunk shorter than 10 makes Gaussian(*gaussian_params) raise TypeError,
\* which leaves the loop before self._last_gaussians is replaced.
RECURSIVE draw_loop(_, _, _, _, _)
draw_loop(params, i, scratch_image, last_gaussians, last_gaussians_new) ==
    IF i \notin chunk_starts(params)
    THEN [raised |-> NoError, scratch_image |-> scratch_image,
          last_gaussians |-> last_gaussians_new]
    ELSE LET gaussian_params == Slice(params, i, i + ParamsPerGaussian)
         IN  IF Len(gaussian_params) # ParamsPerGaussian
             THEN [raised |-> "TypeError", scratch_image |-> scratch_image,
                   last_gaussians |-> last_gaussians]
             ELSE LET gaussian == GaussianFromList(gaussian_params)
                      cached_image == cache_lookup(last_gaussians, gaussian)
                      drawn == draw(scratch_image, gaussian, cached_image)
                  IN  draw_loop(params, i + ParamsPerGaussian, drawn.image,
                                last_gaussians,
                                dict_put(last_gaussians_new, gaussian, drawn.render))

\* _draw_gaussians_to_scratch_image
draw_gaussians_to_scratch_image(self, params) ==
    LET r == draw_loop(params, 0, zeroed_scratch(self.scratch_image),
                       self.last_gaussians, dict_new)
    IN  [raised |-> r.raised,
         self |-> [self EXCEPT !.scratch_image = r.scratch_image,
                               !.last_gaussians = r.last_gaussians]]

\* scratch -= data, then what the caller does to the residual.
residual_times_two(scratch_image, data_image) ==
    [i \in 1..Len(scratch_image) |-> (scratch_image[i] - data_image[i]) * 2]
residual_squared(scratch_image, data_image) ==
    [i \in 1..Len(scratch_image) |->
              (scratch_image[i] - data_image[i]) * (scratch_image[i] - data_image[i])]
residual_doubled_no_target(scratch_image, data_image) ==
    [i \in 1..Len(scratch_image) |-> 2 * scratch_image[i]]
residual_doubled(scratch_image, data_image) ==
    [i \in 1..Len(scratch_image) |-> 2 * (scratch_image[i] - data_image[i])]

\* except ValueError: of the loop over the clusters.
handler_catches_type_error(exception) == exception = "TypeError"
handler_catches(exception) == exception = "ValueError"

\* difference_with_image: the new self and what the call gives its caller.
difference_with_image(self, params) ==
    LET d == draw_gaussians_to_scratch_image(self, params)
    IN  IF d.raised # NoError
        THEN [self |-> d.self, raised |-> d.raised, value |-> None]
        ELSE LET sq == residual_squared(d.self.scratch_image, self.data_image)
             IN  [self |-> [d.self EXCEPT !.scratch_image = sq],
                  raised |-> NoError, value |-> << SeqSum(sq) >>]

\* One pass of the inner loop of gradient, k = gaussian_index * 10 +
\* gradient_nr: the gradient scratch image is zeroed, the derivative image is
\* drawn into it and weighted by the scratch image.
gradient_pass(params, k, scratch_image, scratch_image_gradient) ==
    LET gaussian_index == k \div ParamsPerGaussian
        gradient_nr == k % ParamsPerGaussian
        param_pos == gaussian_index * ParamsPerGaussian
        gaussian == GaussianFromList(
                        Slice(params, param_pos, param_pos + ParamsPerGaussian))
        drawn == draw_gradient(fill(scratch_image_gradient, 0), gaussian, gradient_nr)
    IN  [i \in 1..Len(drawn) |-> drawn[i] * scratch_image[i]]

\* The index pairs the double loop of gradient visits, flattened to k.
gradient_passes_first_gaussian(params) ==
    0..(Min(Len(params) \div ParamsPerGaussian, 1) * ParamsPerGaussian - 1)
gradient_passes(params) ==
    0..((Len(params) \div ParamsPerGaussian) * ParamsPerGaussian - 1)

\* gradient: uninitialised is what numpy.empty_like(params) holds before the loops.
\* Every pass starts from a zeroed gradient scratch image, so pass k leaves
\* the same image whatever the passes before it left.
gradient(self, params, uninitialised) ==
    LET d == draw_gaussians_to_scratch_image(self, params)
    IN  IF d.raised # NoError
        THEN [self |-> d.self, raised |-> d.raised, value |-> None]
        ELSE LET r2 == residual_doubled(d.self.scratch_image, self.data_image)
                 passes == gradient_passes(params)
                 gradient_for_each_parameter ==
                     [k \in 1..Len(params) |->
                               IF k - 1 \in passes
                               THEN SeqSum(gradient_pass(params, k - 1, r2,
                                                         self.scratch_image_gradient))
                               ELSE uninitialised]
                 last ==
                     IF passes = {} THEN self.scratch_image_gradient
                     ELSE gradient_pass(params, Cardinality(passes) - 1, r2,
                                        self.scratch_image_gradient)
             IN  [self |-> [d.self EXCEPT !.scratch_image = r2,
                                          !.scratch_image_gradient = last],
                  raised |-> NoError, value |-> gradient_for_each_parameter]

(***************************************************************************)
(* The collaborators of the orchestrator.  ellipse_cluster and smoothing   *)
(* are modelled from the specification.  A seed (an ellipse stack) is its  *)
(* centre x and its radius r on the row; its tag is its index in           *)
(* ellipse_stacks, counted from 0.  A cluster is the ascending sequence of *)
(* its tags.                                                               *)
(***************************************************************************)
GuessCovXX == 15
GuessCovYY == 15
GuessCovZZ == 3

TagsOf(ellipse_stacks) == 0..(Len(ellipse_stacks) - 1)

\* Two seeds overlap when their extents (x - r, x + r) intersect.
Overlaps(s1, s2) == Abs(s1.x - s2.x) < s1.r + s2.r

\* The tags connected to the tags given by a chain of overlapping seeds.
ConnectedDirectly(ellipse_stacks, tags) ==
    tags \cup {u \in TagsOf(ellipse_stacks) :
                  \E t \in tags : Overlaps(ellipse_stacks[t + 1], ellipse_stacks[u + 1])}
RECURSIVE Connected(_, _)
Connected(ellipse_stacks, tags) ==
    LET more == tags \cup
                {u \in TagsOf(ellipse_stacks) :
                    \E t \in tags : Overlaps(ellipse_stacks[t + 1], ellipse_stacks[u + 1])}
    IN  IF more = tags THEN tags ELSE Connected(ellipse_stacks, more)

SetMin(S) == CHOOSE m \in S : \A n \in S : m <= n
SetMax(S) == CHOOSE m \in S : \A n \in S : m >= n

RECURSIVE Ascending(_)
Ascending(S) ==
    IF S = {} THEN << >> ELSE << SetMin(S) >> \o Ascending(S \ {SetMin(S)})

\* The connected components of the overlap graph over the tags given, in
\* the order of their smallest tags.
RECURSIVE ComponentsRevisiting(_, _)
ComponentsRevisiting(ellipse_stacks, tags) ==
    IF tags = {} THEN << >>
    ELSE << Ascending(Connected(ellipse_stacks, {SetMin(tags)})) >>
             \o ComponentsRevisiting(ellipse_stacks, tags \ {SetMin(tags)})
RECURSIVE Components(_, _)
Components(ellipse_stacks, tags) ==
    IF tags = {} THEN << >>
    ELSE LET component == Connected(ellipse_stacks, {SetMin(tags)})
         IN  << Ascending(component) >>
                 \o Components(ellipse_stacks, tags \ component)

\* ellipse_cluster.find_overlapping_stacks
find_overlapping_stacks(ellipse_stacks) ==
    Components(ellipse_stacks, TagsOf(ellipse_stacks))

\* cluster.get_tags()
get_tags(cluster) == cluster

\* cluster.get_image_for_fit(image, blur_radius): the bounding box of the
\* extents of the cluster, padded by blur_radius and clipped to the image; the
\* crop is an array of the cluster's own.  No crop when the box is empty.
get_image_for_fit(ellipse_stacks, cluster, image, blur_radius) ==
    LET seeds == {ellipse_stacks[cluster[n] + 1] : n \in 1..Len(cluster)}
        min_x == Max(0, SetMin({s.x - s.r : s \in seeds}) - blur_radius)
        max_x == Min(Len(image), SetMax({s.x + s.r : s \in seeds}) + blur_radius + 1)
    IN  IF min_x >= max_x
        THEN [offset_x |-> 0, offset_y |-> 0, offset_z |-> 0, cropped_image |-> None]
        ELSE [offset_x |-> min_x, offset_y |-> 0, offset_z |-> 0,
              cropped_image |-> SubSeq(image, min_x + 1, max_x)]

\* smoothing.smooth(image, radius), in place: every sample becomes the mean
\* (rounded down) of the samples at most radius away.
smooth(array, radius) ==
    [i \in 1..Len(array) |->
        LET lo == Max(1, i - radius)
            hi == Min(Len(array), i + radius)
        IN  SeqSum(SubSeq(array, lo, hi)) \div (hi - lo + 1)]

\* cluster.guess_gaussians(image): one guess per seed, in the order of the
\* tags, its amplitude the sample at the centre of the seed.
guess_gaussians(ellipse_stacks, cluster, image) ==
    [n \in 1..Len(cluster) |->
        LET seed == ellipse_stacks[cluster[n] + 1]
        IN  Gaussian(image[seed.x + 1], seed.x, 0, 0,
                     GuessCovXX, GuessCovYY, GuessCovZZ, 0, 0, 0)]

(***************************************************************************)
(* The minimizer (scipy.optimize.minimize) is any deterministic function   *)
(* of the fit problem: the target image and the initial vector.  An oracle *)
(* gives its answer on the problems enumerated; on any other problem it    *)
(* reports failure.                                                        *)
(***************************************************************************)
\* A vector on which every amplitude and every mu_x is one larger.
Nudged(x0) ==
    [k \in 1..Len(x0) |->
        IF k % ParamsPerGaussian \in {1, 2} THEN x0[k] + 1 ELSE x0[k]]

minimize(oracle, data_image, x0) ==
    LET problem == << data_image, x0 >>
        answer == IF problem \in DOMAIN oracle THEN oracle[problem] ELSE "fail"
    IN  CASE answer = "same" -> [success |-> TRUE, x |-> x0, message |-> ""]
          [] answer = "nudged" -> [success |-> TRUE, x |-> Nudged(x0), message |-> ""]
          [] OTHER -> [success |-> FALSE, x |-> x0,
                       message |-> "Maximum number of function evaluations has been exceeded."]

\* guesses_list += guess.to_list() for every guess.
RECURSIVE guesses_to_list(_)
guesses_to_list(guesses) ==
    IF guesses = << >> THEN << >>
    ELSE to_list(Head(guesses)) \o guesses_to_list(Tail(guesses))

\* perform_gaussian_mixture_fit: the Gaussians fitted, or the ValueError raised.
perform_gaussian_mixture_fit(oracle, original_image, guesses) ==
    LET model_and_image_difference == astype(original_image)
        guesses_list == guesses_to_list(guesses)
        result == minimize(oracle, model_and_image_difference, guesses_list)
    IN  IF ~result.success
        THEN [raised |-> "ValueError",
              message |-> "Minimization failed: " \o result.message,
              gaussians |-> << >>]
        ELSE [raised |-> NoError, message |-> "",
              gaussians |-> [n \in 1..(Len(result.x) \div ParamsPerGaussian) |->
                                GaussianFromList(Slice(result.x,
                                                       (n - 1) * ParamsPerGaussian,
                                                       n * ParamsPerGaussian))]]

(***************************************************************************)
(* perform_gaussian_mixture_fit_from_watershed.  A run is the record of    *)
(* what the function holds and has done so far:                            *)
(*   image          the caller's volume                                    *)
(*   all_gaussians  the result list, indexed by tag                        *)
(*   stdout         what was printed                                       *)
(*   calls, writes, history, last                                          *)
(*                  for the record: the collaborators invoked per cluster, *)
(*                  every assignment to a slot of all_gaussians, and how   *)
(*                  each pass of the loop ended                            *)
(*   raised         the exception that left the function, if any           *)
(* The environment env holds the inputs and the collaborators' behaviour:  *)
(*   ellipse_stacks, ellipse_clusters, blur_radius, oracle (the minimizer),*)
(*   no_crop (clusters whose crop is made degenerate) and no_fit (clusters *)
(*   on which the minimizer is made to fail).                              *)
(***************************************************************************)
\* all_gaussians = [None] * len(ellipse_stacks)
empty_result(ellipse_stacks) == [t \in TagsOf(ellipse_stacks) |-> None]

StartOfRun(image, ellipse_stacks) ==
    [image |-> image, all_gaussians |-> empty_result(ellipse_stacks),
     stdout |-> << >>, calls |-> {}, writes |-> << >>, history |-> << >>,
     last |-> "", raised |-> NoError]

\* smoothing.smooth(cropped_image, blur_radius): the crop is smoothed in
\* place; the caller's image is another array.
smooth_crop_aliasing_image(image, fit_image, blur_radius) ==
    LET smoothed == smooth(fit_image.cropped_image, blur_radius)
    IN  [image |-> [i \in 1..Len(image) |->
                       IF i - 1 >= fit_image.offset_x
                          /\ i - 1 < fit_image.offset_x + Len(smoothed)
                       THEN smoothed[i - fit_image.offset_x] ELSE image[i]],
         cropped_image |-> smoothed]
smooth_crop(image, fit_image, blur_radius) ==
    [image |-> image, cropped_image |-> smooth(fit_image.cropped_image, blur_radius)]

\* for i, gaussian in enumerate(gaussians):
\*     all_gaussians[tags[i]] = gaussian.translated(offset_x, offset_y, offset_z)
store_fitted_first_only(all_gaussians, tags, gaussians, fit_image) ==
    [t \in DOMAIN all_gaussians |->
        IF Len(gaussians) >= 1 /\ tags[1] = t
        THEN translated(gaussians[1],
                        fit_image.offset_x, fit_image.offset_y, fit_image.offset_z)
        ELSE all_gaussians[t]]
store_fitted_untranslated(all_gaussians, tags, gaussians, fit_image) ==
    [t \in DOMAIN all_gaussians |->
        IF \E i \in 1..Len(gaussians) : tags[i] = t
        THEN gaussians[SetMax({i \in 1..Len(gaussians) : tags[i] = t})]
        ELSE all_gaussians[t]]
store_fitted_by_position(all_gaussians, tags, gaussians, fit_image) ==
    [t \in DOMAIN all_gaussians |->
        IF t + 1 \in 1..Len(gaussians)
        THEN translated(gaussians[t + 1],
                        fit_image.offset_x, fit_image.offset_y, fit_image.offset_z)
        ELSE all_gaussians[t]]
store_fitted(all_gaussians, tags, gaussians, fit_image) ==
    [t \in DOMAIN all_gaussians |->
        IF \E i \in 1..Len(gaussians) : tags[i] = t
        THEN translated(gaussians[SetMax({i \in 1..Len(gaussians) : tags[i] = t})],
                        fit_image.offset_x, fit_image.offset_y, fit_image.offset_z)
        ELSE all_gaussians[t]]

\* What the loop does after the except clause: continue with the next cluster.
after_failure_break == "break"
after_failure == "continue"

\* if cropped_image is None: continue
crop_is_absent_never(cropped_image) == FALSE
crop_is_absent(cropped_image) == cropped_image = None

\* The part of the loop body after the crop was found present.
fit_cluster(env, run, c, fit_image) ==
    LET cluster == env.ellipse_clusters[c]
        smoothed == smooth_crop(run.image, fit_image, env.blur_radius)
        guesses == guess_gaussians(env.ellipse_stacks, cluster, smoothed.image)
        tags == get_tags(cluster)
        gaussians == [n \in 1..Len(guesses) |->
                         translated(guesses[n], 0 - fit_image.offset_x,
                                    0 - fit_image.offset_y, 0 - fit_image.offset_z)]
        fit == perform_gaussian_mixture_fit(
                   IF c \in env.no_fit THEN << >> ELSE env.oracle,
                   smoothed.cropped_image, gaussians)
        called == run.calls \cup {<< "get_image_for_fit", c >>, << "smooth", c >>,
                                  << "guess_gaussians", c >>,
                                  << "perform_gaussian_mixture_fit", c >>}
    IN  IF fit.raised = NoError
        THEN [run EXCEPT
                 !.image = smoothed.image,
                 !.all_gaussians = store_fitted(@, tags, fit.gaussians, fit_image),
                 !.writes = @ \o [i \in 1..Len(fit.gaussians) |->
                                     [cluster |-> c, tag |-> tags[i]]],
                 !.calls = called,
                 !.history = Append(@, [cluster |-> c, outcome |-> "fitted"]),
                 !.last = "fitted"]
        ELSE IF handler_catches(fit.raised)
        THEN [run EXCEPT
                 !.image = smoothed.image,
                 !.stdout = Append(@, << "Minimization failed for ", cluster >>),
                 !.calls = called,
                 !.history = Append(@, [cluster |-> c, outcome |-> "failed"]),
                 !.last = "failed"]
        ELSE [run EXCEPT !.image = smoothed.image, !.calls = called,
                         !.history = Append(@, [cluster |-> c, outcome |-> "failed"]),
                         !.last = "failed", !.raised = fit.raised]

\* The body of the loop for cluster number c of ellipse_clusters.
process_cluster(env, run, c) ==
    LET cluster == env.ellipse_clusters[c]
        fit_image == IF c \in env.no_crop
                     THEN [offset_x |-> 0, offset_y |-> 0, offset_z |-> 0,
                           cropped_image |-> None]
                     ELSE get_image_for_fit(env.ellipse_stacks, cluster, run.image,
                                            env.blur_radius)
    IN  IF crop_is_absent(fit_image.cropped_image)
        THEN [run EXCEPT !.calls = @ \cup {<< "get_image_for_fit", c >>},
                         !.history = Append(@, [cluster |-> c, outcome |-> "skipped"]),
                         !.last = "skipped"]
        ELSE fit_cluster(env, run, c, fit_image)

\* Whether the loop goes on after the body left the run as given.
loop_goes_on(run) ==
    /\ run.raised = NoError
    /\ run.last = "failed" => after_failure = "continue"

\* The whole loop over the clusters in the order given, from position pos.
RECURSIVE run_loop(_, _, _, _)
run_loop(env, run, order, pos) ==
    IF pos > Len(order) THEN run
    ELSE LET next == process_cluster(env, run, order[pos])
         IN  IF loop_goes_on(next) THEN run_loop(env, next, order, pos + 1)
             ELSE next

(***************************************************************************)
(* The inputs enumerated for calls on a residual model.                    *)
(***************************************************************************)
\* An image that is dark but for one voxel.
PeakImage(size_x, peak, value) ==
    [i \in 1..size_x |-> IF i - 1 = peak THEN value ELSE 0]

ResidualTargets == {PeakImage(SizeX, p, MaxVal) : p \in {0, SizeX - 1}}

\* Two Gaussians that differ in amplitude only, and one that differs from
\* the second in its mean only.
EnumGaussians ==
    {Gaussian(a, 0, 0, 0, 1, 1, 1, 0, 0, 0) : a \in {1, MaxVal}}
        \cup {Gaussian(MaxVal, SizeX - 1, 0, 0, 1, 1, 1, 0, 0, 0)}

\* to_list of first, then of (count - 1) times rest.
RECURSIVE Flatten(_, _, _)
Flatten(first, rest, count) ==
    IF count = 0 THEN << >>
    ELSE to_list(first) \o Flatten(rest, rest, count - 1)

WellFormedParams ==
    {Flatten(b, b2, k) : b \in EnumGaussians, b2 \in EnumGaussians,
                         k \in 0..MaxGaussians}

\* Vectors whose length is no multiple of 10: a well-formed one cut short.
MalformedParams ==
    {SubSeq(Flatten(b, b, k), 1, k * ParamsPerGaussian - (ParamsPerGaussian \div 2)) :
         b \in EnumGaussians, k \in 1..MaxGaussians}

EnumParams == WellFormedParams \cup MalformedParams

JunkValues == {0, MaxVal}

(***************************************************************************)
(* The inputs enumerated for runs of the orchestrator.                     *)
(***************************************************************************)
InputImages == ResidualTargets

\* Centres of seeds: two that overlap, one apart from both whose padded box
\* overlaps theirs, and one whose padded box lies outside the volume.
SeedCentres == {0, 1, SizeX - 1, SizeX + SeedRadius + BlurRadius}

StackConfigs ==
    UNION {[1..n -> {[x |-> c, r |-> SeedRadius] : c \in SeedCentres}] :
              n \in 1..MaxSeeds}

\* The orders in which count clusters can be processed.
Orders(count) ==
    {o \in [1..count -> 1..count] : \A i, j \in 1..count : o[i] = o[j] => i = j}
NaturalOrder(count) == [i \in 1..count |-> i]

\* A run in any order with every cluster left as it is, or a run in the
\* order of the list with one cluster's crop made degenerate or one
\* cluster's minimization made to fail.
Variants(count) ==
    {[order |-> o, no_crop |-> {}, no_fit |-> {}] : o \in Orders(count)}
        \cup {[order |-> NaturalOrder(count), no_crop |-> {c}, no_fit |-> {}] :
                 c \in 1..count}
        \cup {[order |-> NaturalOrder(count), no_crop |-> {}, no_fit |-> {c}] :
                 c \in 1..count}

\* The fit problems of the clusters on the image as the caller gave it.
ProblemsOf(image, ellipse_stacks, ellipse_clusters, blur_radius) ==
    LET problem(cluster) ==
            LET fit_image == get_image_for_fit(ellipse_stacks, cluster, image,
                                               blur_radius)
                guesses == guess_gaussians(ellipse_stacks, cluster, image)
            IN  << smooth(fit_image.cropped_image, blur_radius),
                   guesses_to_list([n \in 1..Len(guesses) |->
                       translated(guesses[n], 0 - fit_image.offset_x,
                                  0 - fit_image.offset_y, 0 - fit_image.offset_z)]) >>
    IN  {problem(ellipse_clusters[c]) :
            c \in {d \in 1..Len(ellipse_clusters) :
                      get_image_for_fit(ellipse_stacks, ellipse_clusters[d], image,
                                        blur_radius).cropped_image # None}}

Answers == {"fail", "same", "nudged"}

(***************************************************************************)
(* State.                                                                  *)
(***************************************************************************)
VARIABLES
    world,           \* which entry point the caller uses: "residual" | "orchestrator"
    original_image,  \* residual: the array handed to _ModelAndImageDifference
    self,            \* residual: the fields of the _ModelAndImageDifference
    junk,            \* residual: what uninitialised memory holds
    call,            \* residual: the last call, [name, params] and, for the
                     \* record, the keys the render cache held before it
    ret,             \* residual: what the last call gave, [raised, value]
    env,             \* orchestrator: inputs and collaborators of the run
    order,           \* orchestrator: the order in which the loop takes the clusters
    run,             \* orchestrator: the run so far
    pos,             \* orchestrator: position of the loop in order
    pc               \* orchestrator: "loop" | "returned" | "raised"

residual_vars == << original_image, self, junk, call, ret >>
orchestrator_vars == << env, order, run, pos, pc >>
vars == << world, original_image, self, junk, call, ret, env, order, run, pos, pc >>

NoCall == [name |-> "", params |-> << >>, cached_before |-> {}]
NoRet == [raised |-> NoError, value |-> None]

InitResidual ==
    /\ world = "residual"
    /\ original_image \in ResidualTargets
    /\ junk \in JunkValues
    /\ self = ModelAndImageDifference(original_image, junk)
    /\ call = NoCall
    /\ ret = NoRet
    /\ env = << >> /\ order = << >> /\ run = << >> /\ pos = 0 /\ pc = ""

\* model_and_image_difference.difference_with_image(params)
CallDifference ==
    /\ world = "residual"
    /\ \E params \in EnumParams :
          LET r == difference_with_image(self, params)
          IN  /\ self' = r.self
              /\ ret' = [raised |-> r.raised, value |-> r.value]
              /\ call' = [name |-> "difference_with_image", params |-> params,
                          cached_before |-> DOMAIN self.last_gaussians]
    /\ UNCHANGED << world, original_image, junk, orchestrator_vars >>

\* model_and_image_difference.gradient(params)
CallGradient ==
    /\ world = "residual"
    /\ \E params \in EnumParams :
          LET r == gradient(self, params, junk)
          IN  /\ self' = r.self
              /\ ret' = [raised |-> r.raised, value |-> r.value]
              /\ call' = [name |-> "gradient", params |-> params,
                          cached_before |-> DOMAIN self.last_gaussians]
    /\ UNCHANGED << world, original_image, junk, orchestrator_vars >>

\* perform_gaussian_mixture_fit_from_watershed(image, watershed_image,
\* blur_radius) up to the head of its loop.
InitOrchestrator ==
    /\ world = "orchestrator"
    /\ \E image \in InputImages, ellipse_stacks \in StackConfigs :
          LET ellipse_clusters == find_overlapping_stacks(ellipse_stacks)
          IN  \E variant \in Variants(Len(ellipse_clusters)),
                 oracle \in [ProblemsOf(image, ellipse_stacks, ellipse_clusters,
                                        BlurRadius) -> Answers] :
                  /\ env = [image |-> image, ellipse_stacks |-> ellipse_stacks,
                            ellipse_clusters |-> ellipse_clusters,
                            blur_radius |-> BlurRadius, oracle |-> oracle,
                            no_crop |-> variant.no_crop, no_fit |-> variant.no_fit]
                  /\ order = variant.order
                  /\ run = StartOfRun(image, ellipse_stacks)
    /\ pos = 1
    /\ pc = "loop"
    /\ original_image = << >> /\ self = << >> /\ junk = 0
    /\ call = NoCall /\ ret = NoRet

AtCluster == world = "orchestrator" /\ pc = "loop" /\ pos <= Len(order)

\* One pass of the loop that ends at "if cropped_image is None: continue".
SkipCluster ==
    /\ AtCluster
    /\ LET next == process_cluster(env, run, order[pos])
       IN  /\ next.last = "skipped"
           /\ run' = next
    /\ pos' = pos + 1
    /\ UNCHANGED << world, residual_vars, env, order, pc >>

\* One pass of the loop in which the fit succeeds and its Gaussians are stored.
FitCluster ==
    /\ AtCluster
    /\ LET next == process_cluster(env, run, order[pos])
       IN  /\ next.last = "fitted"
           /\ run' = next
    /\ pos' = pos + 1
    /\ UNCHANGED << world, residual_vars, env, order, pc >>

\* One pass of the loop in which perform_gaussian_mixture_fit raises.
FailCluster ==
    /\ AtCluster
    /\ LET next == process_cluster(env, run, order[pos])
       IN  /\ next.last = "failed"
           /\ run' = next
           /\ pc' = IF next.raised # NoError THEN "raised" ELSE pc
           /\ pos' = IF loop_goes_on(next) THEN pos + 1 ELSE Len(order) + 1
    /\ UNCHANGED << world, residual_vars, env, order >>

\* The loop is over: the duration is printed and all_gaussians returned.
Return ==
    /\ world = "orchestrator" /\ pc = "loop" /\ pos > Len(order)
    /\ run' = [run EXCEPT !.stdout = Append(@, << "Whole fitting process took " >>)]
    /\ pc' = "returned"
    /\ UNCHANGED << world, residual_vars, env, order, pos >>

(***************************************************************************)
(* A run of the loop of the orchestrator over a clustering that is no      *)
(* partition of the seeds: find_overlapping_stacks is a collaborator, and  *)
(* the loop takes its list as it comes.                                    *)
(***************************************************************************)
IsPartition(ellipse_stacks, ellipse_clusters) ==
    LET tags_of(c) == {ellipse_clusters[c][n] : n \in 1..Len(ellipse_clusters[c])}
    IN  /\ \A c, d \in 1..Len(ellipse_clusters) :
              c # d => tags_of(c) \cap tags_of(d) = {}
        /\ UNION {tags_of(c) : c \in 1..Len(ellipse_clusters)} = TagsOf(ellipse_stacks)

\* Lists of one or two clusters over the tags that are no partition: a tag
\* is in none of them or in both.
BrokenClusterings(ellipse_stacks) ==
    LET clusters == {Ascending(S) : S \in (SUBSET TagsOf(ellipse_stacks)) \ {{}}}
    IN  {cs \in UNION {[1..n -> clusters] : n \in 1..2} :
            ~IsPartition(ellipse_stacks, cs)}

\* Seeds with their centres in the volume.
StackConfigsInside ==
    {ellipse_stacks \in StackConfigs :
        \A n \in 1..Len(ellipse_stacks) : ellipse_stacks[n].x < SizeX}

InitBrokenClustering ==
    /\ world = "orchestrator"
    /\ \E image \in InputImages, ellipse_stacks \in StackConfigsInside :
          \E ellipse_clusters \in BrokenClusterings(ellipse_stacks) :
              \E oracle \in [ProblemsOf(image, ellipse_stacks, ellipse_clusters,
                                        BlurRadius) -> Answers],
                 no_crop \in {{}, {1}} :
                  /\ env = [image |-> image, ellipse_stacks |-> ellipse_stacks,
                            ellipse_clusters |-> ellipse_clusters,
                            blur_radius |-> BlurRadius, oracle |-> oracle,
                            no_crop |-> no_crop, no_fit |-> {}]
                  /\ order = NaturalOrder(Len(ellipse_clusters))
                  /\ run = StartOfRun(image, ellipse_stacks)
    /\ pos = 1
    /\ pc = "loop"
    /\ original_image = << >> /\ self = << >> /\ junk = 0
    /\ call = NoCall /\ ret = NoRet

(***************************************************************************)
(* The partitioner on its own: find_overlapping_stacks applied to seeds    *)
(* anywhere in the volume, chains of overlapping seeds among them.         *)
(***************************************************************************)
ChainConfigs ==
    UNION {[1..n -> {[x |-> c, r |-> SeedRadius] : c \in 0..(SizeX - 1)}] :
              n \in 1..MaxSeeds}

InitPartitioner ==
    /\ world = "partitioner"
    /\ \E ellipse_stacks \in ChainConfigs :
          env = [ellipse_stacks |-> ellipse_stacks, ellipse_clusters |-> << >>]
    /\ pc = "call"
    /\ original_image = << >> /\ self = << >> /\ junk = 0
    /\ call = NoCall /\ ret = NoRet
    /\ order = << >> /\ run = << >> /\ pos = 0

\* ellipse_clusters = ellipse_cluster.find_overlapping_stacks(ellipse_stacks)
CallFindOverlappingStacks ==
    /\ world = "partitioner" /\ pc = "call"
    /\ env' = [env EXCEPT !.ellipse_clusters = find_overlapping_stacks(env.ellipse_stacks)]
    /\ pc' = "returned"
    /\ UNCHANGED << world, residual_vars, order, run, pos >>

\* One call of the partitioner.
SpecPartitioner == InitPartitioner /\ [][CallFindOverlappingStacks]_vars

(***************************************************************************)
(* imaging.position_markers: intensities registered in a PositionData.     *)
(* In this world self is the PositionData, a dict per data name from       *)
(* positions to values; env remembers what the caller registered last for  *)
(* every position.  A quotient of true division is kept as the pair of its *)
(* operands.                                                               *)
(***************************************************************************)
Positions == {"p1", "p2"}
IntensityValues == 0..MaxVal
VolumeValues == 1..MaxVal
DictsOver(values) == UNION {[keys -> values] : keys \in SUBSET Positions}

\* PositionData.add_positions_data(data_name, data_set)
add_positions_data(position_data, data_name, data_set) ==
    LET old == dict_get(position_data, data_name)
        merged == [p \in (DOMAIN old) \cup (DOMAIN data_set) |->
                      IF p \in DOMAIN data_set THEN data_set[p] ELSE old[p]]
    IN  dict_put(position_data, data_name, merged)

\* PositionData.get_position_data(position, data_name): None, or << value >>.
get_position_data(position_data, position, data_name) ==
    LET data_set == dict_get(position_data, data_name)
    IN  IF position \in DOMAIN data_set THEN << data_set[position] >> ELSE None

\* intensity / volume
true_division(intensity, volume) ==
    IF volume = 0
    THEN [raised |-> "ZeroDivisionError", value |-> None]
    ELSE [raised |-> NoError, value |-> [num |-> intensity, den |-> volume]]

\* The data set that set_intensities registers under "intensity_volume".
registered_as_volume(intensities, volumes) == intensities

set_intensities(position_data, intensities, volumes) ==
    IF DOMAIN intensities # DOMAIN volumes
    THEN [raised |-> "ValueError", position_data |-> position_data]
    ELSE [raised |-> NoError,
          position_data |->
              add_positions_data(
                  add_positions_data(position_data, "intensity", intensities),
                  "intensity_volume", registered_as_volume(intensities, volumes))]

get_intensity_per_pixel(position_data, position) ==
    LET intensity == get_position_data(position_data, position, "intensity")
        volume == get_position_data(position_data, position, "intensity_volume")
    IN  IF intensity = None THEN [raised |-> NoError, value |-> None]
        ELSE IF volume = None THEN [raised |-> NoError, value |-> None]
        ELSE true_division(intensity[1], volume[1])

InitMarkers ==
    /\ world = "markers"
    /\ self = dict_new
    /\ env = [intensities |-> << >>, volumes |-> << >>]
    /\ call = NoCall /\ ret = NoRet
    /\ original_image = << >> /\ junk = 0
    /\ order = << >> /\ run = << >> /\ pos = 0 /\ pc = ""

CallSetIntensities ==
    /\ world = "markers"
    /\ \E intensities \in DictsOver(IntensityValues), volumes \in DictsOver(VolumeValues) :
          LET r == set_intensities(self, intensities, volumes)
          IN  /\ self' = r.position_data
              /\ ret' = [raised |-> r.raised, value |-> None]
              /\ call' = [name |-> "set_intensities", intensities |-> intensities,
                          volumes |-> volumes]
              /\ env' = IF r.raised # NoError THEN env
                        ELSE [intensities |->
                                  [p \in (DOMAIN env.intensities) \cup (DOMAIN intensities) |->
                                      IF p \in DOMAIN intensities THEN intensities[p]
                                      ELSE env.intensities[p]],
                              volumes |->
                                  [p \in (DOMAIN env.volumes) \cup (DOMAIN volumes) |->
                                      IF p \in DOMAIN volumes THEN volumes[p]
                                      ELSE env.volumes[p]]]
    /\ UNCHANGED << world, original_image, junk, order, run, pos, pc >>

CallGetIntensityPerPixel ==
    /\ world = "markers"
    /\ \E position \in Positions :
          LET r == get_intensity_per_pixel(self, position)
          IN  /\ ret' = [raised |-> r.raised, value |-> r.value]
              /\ call' = [name |-> "get_intensity_per_pixel", position |-> position]
    /\ UNCHANGED << world, original_image, self, junk, env, order, run, pos, pc >>

NextMarkers == CallSetIntensities \/ CallGetIntensityPerPixel
\* Calls on one PositionData.
SpecMarkers == InitMarkers /\ [][NextMarkers]_vars

(***************************************************************************)
(* The residual model of a noiseless target: the image is the render of    *)
(* one Gaussian (env.truth), and difference_with_image is called at its    *)
(* parameters and at perturbed ones.                                       *)
(***************************************************************************)
TruthInputs ==
    {Gaussian(a, mu_x, 0, 0, 1, 1, 1, 0, 0, 0) :
        a \in {0, MaxVal}, mu_x \in 0..(SizeX - 1)}

\* The truth with its amplitude or its mean changed, or both.
Perturbed(truth) ==
    {[truth EXCEPT !.a = a, !.mu_x = mu_x] :
        a \in {0, 1, MaxVal}, mu_x \in 0..(SizeX - 1)} \ {truth}

InitNoiseless ==
    /\ world = "residual"
    /\ \E truth \in TruthInputs :
          /\ env = [truth |-> truth]
          /\ original_image = draw([i \in 1..SizeX |-> 0], truth, None).image
    /\ junk \in JunkValues
    /\ self = ModelAndImageDifference(original_image, junk)
    /\ call = NoCall
    /\ ret = NoRet
    /\ order = << >> /\ run = << >> /\ pos = 0 /\ pc = ""

\* difference_with_image at the parameters of the truth
CallDifferenceAtTruth ==
    /\ world = "residual"
    /\ LET params == to_list(env.truth)
           r == difference_with_image(self, params)
       IN  /\ self' = r.self
           /\ ret' = [raised |-> r.raised, value |-> r.value]
           /\ call' = [name |-> "difference_with_image", params |-> params,
                       cached_before |-> DOMAIN self.last_gaussians]
    /\ UNCHANGED << world, original_image, junk, orchestrator_vars >>

\* difference_with_image at perturbed parameters
CallDifferencePerturbed ==
    /\ world = "residual"
    /\ \E g \in Perturbed(env.truth) :
          LET params == to_list(g)
              r == difference_with_image(self, params)
          IN  /\ self' = r.self
              /\ ret' = [raised |-> r.raised, value |-> r.value]
              /\ call' = [name |-> "difference_with_image", params |-> params,
                          cached_before |-> DOMAIN self.last_gaussians]
    /\ UNCHANGED << world, original_image, junk, orchestrator_vars >>

NextNoiseless == CallDifferenceAtTruth \/ CallDifferencePerturbed
\* Calls of difference_with_image on the model of a noiseless target.
SpecNoiseless == InitNoiseless /\ [][NextNoiseless]_vars

(***************************************************************************)
(* Gaussian objects of particle_detection.gaussian_fit and one image they  *)
(* are drawn into.  In this world self is the heap of Gaussians,           *)
(* original_image the image, run the record of what was drawn, call the    *)
(* last method call with the heap and the image it found, ret.value the    *)
(* object it returned.                                                     *)
(***************************************************************************)
\* Blobs whose window lies inside the image, at its border, and across it.
BlobInputs ==
    {Gaussian(a, mu_x, 0, 0, 1, 1, 1, 0, 0, 0) :
        a \in {1, MaxVal}, mu_x \in {1, WindowSigmas, WindowSigmas + 1}}
Offsets == {0 - 1, 1, 2}
Scales == {0, 2}
\* What the image holds before the first draw: zeroed, or a ramp.
Backgrounds == {[i \in 1..CanvasX |-> 0], [i \in 1..CanvasX |-> i % (MaxVal + 1)]}

InitBlobs ==
    /\ world = "blobs"
    /\ \E g \in BlobInputs : self = << g >>
    /\ original_image \in Backgrounds
    /\ run = [background |-> original_image, drawn |-> << >>]
    /\ call = [name |-> "", this |-> 0, args |-> << >>, heap |-> self,
               image |-> original_image]
    /\ ret = NoRet
    /\ junk = 0 /\ env = << >> /\ order = << >> /\ pos = 0 /\ pc = ""

\* gaussian.translated(dx, 0, 0)
CallTranslated ==
    /\ world = "blobs" /\ Len(self) < MaxObjects
    /\ \E this \in 1..Len(self), dx \in Offsets :
          LET r == Gaussian_translated(self, this, dx, 0, 0)
          IN  /\ self' = r.heap
              /\ ret' = [raised |-> NoError, value |-> r.result]
              /\ call' = [name |-> "translated", this |-> this,
                          args |-> << dx, 0, 0 >>, heap |-> self,
                          image |-> original_image]
    /\ UNCHANGED << world, original_image, junk, env, order, run, pos, pc >>

\* gaussian.scaled(scale)
CallScaled ==
    /\ world = "blobs" /\ Len(self) < MaxObjects
    /\ \E this \in 1..Len(self), scale \in Scales :
          LET r == Gaussian_scaled(self, this, scale)
          IN  /\ self' = r.heap
              /\ ret' = [raised |-> NoError, value |-> r.result]
              /\ call' = [name |-> "scaled", this |-> this,
                          args |-> << scale >>, heap |-> self,
                          image |-> original_image]
    /\ UNCHANGED << world, original_image, junk, env, order, run, pos, pc >>

\* gaussian.draw(image), for a Gaussian whose window meets the image.
CallDraw ==
    /\ world = "blobs" /\ Len(run.drawn) < MaxDraws
    /\ \E this \in 1..Len(self) :
          /\ WindowLo(self[this]) < WindowHi(self[this], Len(original_image))
          /\ original_image' = Gaussian_draw(original_image, self[this])
          /\ run' = [run EXCEPT !.drawn = Append(@, self[this])]
          /\ ret' = NoRet
          /\ call' = [name |-> "draw", this |-> this, args |-> << >>,
                      heap |-> self, image |-> original_image]
    /\ UNCHANGED << world, self, junk, env, order, pos, pc >>

NextBlobs == CallTranslated \/ CallScaled \/ CallDraw
\* Calls on Gaussian objects.
SpecBlobs == InitBlobs /\ [][NextBlobs]_vars

(***************************************************************************)
(* Gaussian.draw of particle_detection.gaussian_fit for a Gaussian         *)
(* anywhere, its mean inside the image or outside it, with the slicing of  *)
(* Python: a negative stop counts from the end of the axis.  In this world *)
(* env holds the Gaussian and what reshape does with a negative size,      *)
(* original_image the image, call the window the last draw computed and    *)
(* the voxels its slice addressed.                                         *)
(***************************************************************************)
\* The indices that array[start:stop] addresses on an axis of the length
\* given, as slice.indices gives them: [lo, hi).
slice_indices(start, stop, length) ==
    LET clamp(i) == IF i < 0 THEN Max(i + length, 0) ELSE Min(i, length)
    IN  [lo |-> clamp(start), hi |-> Max(clamp(start), clamp(stop))]

\* offset_x, max_x and size_x of lines 39-45.
draw_window(g, shape_x) ==
    LET offset_x == Max(0, g.mu_x - WindowSigmas * g.cov_xx)
        max_x == Min(shape_x, g.mu_x + WindowSigmas * g.cov_xx)
    IN  [offset_x |-> offset_x, max_x |-> max_x, size_x |-> max_x - offset_x]

\* numpy.arange(xsize) of _get_positions: no position for a size below 1.
get_positions(xsize) == [k \in 1..Max(0, xsize) |-> k - 1]

\* What gauss.reshape(size_z, size_y, size_x) does with a negative size_x:
\* numpy takes it for the one dimension to infer, or rejects it.
ReshapeOfNegative == {"inferred", "ValueError"}

\* Gaussian.draw(image) in full: the window, the voxels the slice addresses,
\* the image afterwards and the exception raised.
Gaussian_draw_anywhere(image, g, reshape_of_negative) ==
    LET w == draw_window(g, Len(image))
        positions == get_positions(w.size_x)
        gauss == [k \in 1..Len(positions) |->
                     gauss3d(positions[k], g.a, g.mu_x - w.offset_x, g.cov_xx)]
        target == slice_indices(w.offset_x, w.max_x, Len(image))
        addressed == {x \in 0..(Len(image) - 1) : x >= target.lo /\ x < target.hi}
        done(raised, after) ==
            [raised |-> raised, image |-> after, offset_x |-> w.offset_x,
             max_x |-> w.max_x, size_x |-> w.size_x, addressed |-> addressed]
    IN  IF w.size_x < 0 /\ reshape_of_negative = "ValueError"
        THEN done("ValueError", image)
        ELSE IF Cardinality(addressed) # Len(gauss) /\ Len(gauss) # 1
        THEN done("ValueError", image)
        ELSE done(NoError,
                  [i \in 1..Len(image) |->
                      IF i - 1 \in addressed
                      THEN image[i] + gauss[IF Len(gauss) = 1 THEN 1 ELSE i - target.lo]
                      ELSE image[i]])

\* Gaussians with their mean inside the image, at its borders and outside it.
AnywhereInputs ==
    {Gaussian(a, mu_x, 0, 0, 1, 1, 1, 0, 0, 0) :
        a \in {1, MaxVal}, mu_x \in (0 - MeanReach)..(CanvasX + MeanReach)}

InitAnywhere ==
    /\ world = "anywhere"
    /\ \E g \in AnywhereInputs, reshape_of_negative \in ReshapeOfNegative :
          env = [gaussian |-> g, reshape_of_negative |-> reshape_of_negative]
    /\ original_image \in Backgrounds
    /\ call = NoCall /\ ret = NoRet
    /\ pos = 0
    /\ self = << >> /\ junk = 0 /\ order = << >> /\ run = << >> /\ pc = ""

\* gaussian.draw(image)
CallDrawAnywhere ==
    /\ world = "anywhere" /\ pos < MaxDraws
    /\ LET r == Gaussian_draw_anywhere(original_image, env.gaussian,
                                       env.reshape_of_negative)
       IN  /\ original_image' = r.image
           /\ ret' = [raised |-> r.raised, value |-> None]
           /\ call' = [name |-> "draw", offset_x |-> r.offset_x, max_x |-> r.max_x,
                       size_x |-> r.size_x, addressed |-> r.addressed,
                       image |-> original_image]
    /\ pos' = pos + 1
    /\ UNCHANGED << world, self, junk, env, order, run, pc >>

\* Draws of one Gaussian into one image.
SpecAnywhere == InitAnywhere /\ [][CallDrawAnywhere]_vars

(***************************************************************************)
(* particles_to_gaussians of particle_detection.gaussian_fit.  The volume  *)
(* of this world is zyx-indexed with one slice: image[z + 1][y + 1][x + 1] *)
(* is voxel (z, y, x).  A coordinate of a particle is a multiple of one    *)
(* half and is kept as the number of halves: 3 stands for 1.5.  The means  *)
(* of the Gaussians of this world are in the same unit.                    *)
(***************************************************************************)
\* int(v) of Python for v halves: the fraction is cut off, towards zero.
int(v) == IF v >= 0 THEN v \div 2 ELSE 0 - ((0 - v) \div 2)

\* array[i] of Python on one axis: a negative index counts from the end.
axis_index(i, length) ==
    IF i >= 0 /\ i < length THEN << i + 1 >>
    ELSE IF i < 0 /\ i + length >= 0 THEN << i + length + 1 >>
    ELSE None

\* image[z, y, x]: the sample, or IndexError.
image_at_transposed(image, z, y, x) ==
    LET k == axis_index(z, Len(image))
        j == axis_index(x, Len(image[1]))
        i == axis_index(y, Len(image[1][1]))
    IN  IF k = None \/ j = None \/ i = None
        THEN [raised |-> "IndexError", value |-> None]
        ELSE [raised |-> NoError, value |-> << image[k[1]][j[1]][i[1]] >>]
image_at(image, z, y, x) ==
    LET k == axis_index(z, Len(image))
        j == axis_index(y, Len(image[1]))
        i == axis_index(x, Len(image[1][1]))
    IN  IF k = None \/ j = None \/ i = None
        THEN [raised |-> "IndexError", value |-> None]
        ELSE [raised |-> NoError, value |-> << image[k[1]][j[1]][i[1]] >>]

\* particles_to_gaussians(image, particles): the list of Gaussians, or the
\* IndexError of the first particle that is no voxel of the image.
particles_to_gaussians(image, particles) ==
    LET intensity(particle) ==
            image_at(image, int(particle.z), int(particle.y), int(particle.x))
    IN  IF \E n \in 1..Len(particles) : intensity(particles[n]).raised # NoError
        THEN [raised |-> "IndexError", gaussians |-> << >>]
        ELSE [raised |-> NoError,
              gaussians |->
                  [n \in 1..Len(particles) |->
                      Gaussian(intensity(particles[n]).value[1],
                               particles[n].x, particles[n].y, particles[n].z,
                               GuessCovXX, GuessCovYY, GuessCovZZ, 0, 0, 0)]]

\* A volume of one slice that is dark but for one voxel.
PeakVolume(peak_y, peak_x) ==
    << [y \in 1..ShapeY |->
           [x \in 1..ShapeX |-> IF y - 1 = peak_y /\ x - 1 = peak_x THEN MaxVal ELSE 0]] >>
GuessVolumes == {PeakVolume(y, x) : y \in 0..(ShapeY - 1), x \in 0..(ShapeX - 1)}

\* Particles at a voxel, between voxels, just left of the volume and right
\* of it (in halves).
ParticleInputs ==
    {[x |-> x, y |-> y, z |-> 0] :
        x \in {0 - 1, 0, 1, 2 * ShapeX - 1, 2 * ShapeX},
        y \in {0, 2 * ShapeY - 1}}
ParticleLists == UNION {[1..n -> ParticleInputs] : n \in 1..MaxParticles}

InitGuesses ==
    /\ world = "guesses"
    /\ original_image \in GuessVolumes
    /\ \E particles \in ParticleLists : env = [particles |-> particles]
    /\ call = NoCall /\ ret = NoRet
    /\ pc = "call"
    /\ self = << >> /\ junk = 0 /\ order = << >> /\ run = << >> /\ pos = 0

\* gaussians = particles_to_gaussians(image, particles)
CallParticlesToGaussians ==
    /\ world = "guesses" /\ pc = "call"
    /\ LET r == particles_to_gaussians(original_image, env.particles)
       IN  /\ ret' = [raised |-> r.raised, value |-> r.gaussians]
           /\ call' = [name |-> "particles_to_gaussians"]
    /\ pc' = "returned"
    /\ UNCHANGED << world, original_image, self, junk, env, order, run, pos >>

\* One call of particles_to_gaussians.
SpecGuesses == InitGuesses /\ [][CallParticlesToGaussians]_vars

(***************************************************************************)
(* compare_links of ai_track.comparison.links_comparison.  A position is   *)
(* its time point and its place x on a line; an experiment is its set of   *)
(* positions and its links, a link being the set of its two positions.     *)
(* Experiment, Links, the position finder and the report are collaborators *)
(* modelled from the way compare_links uses them: what find_all_links and  *)
(* the position finder leave open (the order of the links, which end of a  *)
(* link comes first, the order of the positions found, the choice among    *)
(* positions equally far away) is any of the possibilities.  A Python set  *)
(* of _Link objects is the set of the objects added to it, membership      *)
(* being decided by __hash__ and __eq__.  The report is the number of its  *)
(* entries per category.                                                   *)
(***************************************************************************)
max_amount == 3        \* max_amount=3 of _find_close_positions
max_distance_um == 2   \* the distance handed to compare_links

Position(time_point, x) == [time_point |-> time_point, x |-> x]
hash(position) == position.time_point * 16 + position.x

\* _Link(pos1, pos2)
Link(pos1, pos2) == [pos1 |-> pos1, pos2 |-> pos2]

\* _Link.__hash__
Link_hash_ordered(link) == hash(link.pos1) + 2 * hash(link.pos2)
Link_hash(link) == hash(link.pos1) + hash(link.pos2)

\* _Link.__eq__
Link_eq_ordered(this, other) ==
    other.pos1 = this.pos1 /\ other.pos2 = this.pos2
Link_eq(this, other) ==
    \/ (other.pos1 = this.pos1 /\ other.pos2 = this.pos2)
    \/ (other.pos1 = this.pos2 /\ other.pos2 = this.pos1)

\* link in links_set / link not in links_set
set_contains(links_set, link) ==
    \E member \in links_set :
        Link_hash(member) = Link_hash(link) /\ Link_eq(member, link)

\* links_set.add(link)
set_add(links_set, link) ==
    IF set_contains(links_set, link) THEN links_set ELSE links_set \cup {link}

\* links.contains_link(position1, position2)
contains_link(links, position1, position2) == {position1, position2} \in links

\* nearby_position_finder.find_closest_n_positions(all_positions, around=...,
\* max_amount=3, max_distance_um=..., ignore_self=False): the results it can
\* give, each the at most max_amount positions of the time point of around
\* that are closest to it and no farther away than max_distance_um.
find_closest_n_positions(all_positions, around) ==
    LET near == {q \in all_positions :
                    /\ q.time_point = around.time_point
                    /\ Abs(q.x - around.x) <= max_distance_um}
    IN  {found \in SUBSET near :
            /\ Cardinality(found) = Min(max_amount, Cardinality(near))
            /\ \A q \in found, r \in near \ found :
                  Abs(q.x - around.x) <= Abs(r.x - around.x)}

\* _find_close_positions(position, experiment, max_distance)
find_close_positions(position, experiment) ==
    find_closest_n_positions(experiment.positions, position)

\* _get_link(links, positions1, positions2, forbidden_links): the links it
\* can return, one for each pair the loops can come to first; none when it
\* returns None.
get_link(links, positions1, positions2, forbidden_links) ==
    {Link(position1, position2) :
        << position1, position2 >> \in
            {pair \in positions1 \X positions2 :
                /\ contains_link(links, pair[1], pair[2])
                /\ ~set_contains(forbidden_links, Link(pair[1], pair[2]))}}

\* The experiments enumerated: links between the two time points over a
\* few places, and as positions either the ends of the links only or every
\* place at both time points.
Places == 0..3
PossibleLinks ==
    {{Position(1, places[1]), Position(2, places[2])} :
        places \in {pair \in Places \X Places : Abs(pair[1] - pair[2]) <= 1}}
LinkSets == {links \in SUBSET PossibleLinks : Cardinality(links) \in 1..MaxLinks}
AllPlaces == {Position(time_point, x) : time_point \in {1, 2}, x \in Places}
Experiment(links, crowded) ==
    [positions |-> IF crowded THEN AllPlaces ELSE UNION links, links |-> links]

\* The ways a link that find_all_links gives can come: either end first.
Orientations(link) ==
    {pair \in AllPlaces \X AllPlaces : link = {pair[1], pair[2]} /\ pair[1] # pair[2]}

\* The body of either loop up to the test of the link found (lines 71-74
\* and 85-89): what _get_link can return for the link position1, position2
\* of the one experiment, looked up in the other; << >> is None.
look_up(position1, position2, other, used_links) ==
    UNION {LET candidates == get_link(other.links, positions1, positions2, used_links)
           IN  IF candidates = {} THEN {None} ELSE {<< found >> : found \in candidates} :
              << positions1, positions2 >> \in
                  find_close_positions(position1, other)
                      \X find_close_positions(position2, other)}

\* result = LinksReport(); used_scratch_links = set()
InitLinks ==
    /\ world = "links"
    /\ \E ground_truth \in LinkSets, scratch \in LinkSets, crowded \in BOOLEAN :
          env = [ground_truth |-> Experiment(ground_truth, crowded),
                 scratch |-> Experiment(scratch, crowded)]
    /\ run = [todo |-> env.ground_truth.links,
              used_scratch_links |-> {},
              used_ground_truth_links |-> {},
              true_positives |-> 0, false_negatives |-> 0,
              false_positives |-> 0, matched |-> 0]
    /\ pc = "first"
    /\ call = NoCall /\ ret = NoRet
    /\ original_image = << >> /\ self = << >> /\ junk = 0 /\ order = << >> /\ pos = 0

\* A pass of the first loop that finds a scratch link (lines 70-77).
FirstLoopTruePositive ==
    /\ world = "links" /\ pc = "first"
    /\ \E link \in run.todo :
          \E pair \in Orientations(link) :
              \E found_scratch_link \in
                     look_up(pair[1], pair[2], env.scratch, run.used_scratch_links) :
                  /\ found_scratch_link # None
                  /\ run' = [run EXCEPT
                                !.todo = @ \ {link},
                                !.used_scratch_links = set_add(@, found_scratch_link[1]),
                                !.true_positives = @ + 1]
    /\ UNCHANGED << world, residual_vars, env, order, pos, pc >>

\* A pass of the first loop that finds none (lines 70-74, 78-80).
FirstLoopFalseNegative ==
    /\ world = "links" /\ pc = "first"
    /\ \E link \in run.todo :
          \E pair \in Orientations(link) :
              \E found_scratch_link \in
                     look_up(pair[1], pair[2], env.scratch, run.used_scratch_links) :
                  /\ found_scratch_link = None
                  /\ run' = [run EXCEPT !.todo = @ \ {link},
                                        !.false_negatives = @ + 1]
    /\ UNCHANGED << world, residual_vars, env, order, pos, pc >>

\* The first loop is over: used_ground_truth_links = set() (line 83).
BeginSecondLoop ==
    /\ world = "links" /\ pc = "first" /\ run.todo = {}
    /\ run' = [run EXCEPT !.todo = env.scratch.links,
                          !.used_ground_truth_links = {}]
    /\ pc' = "second"
    /\ UNCHANGED << world, residual_vars, env, order, pos >>

\* A pass of the second loop that finds a ground truth link (lines 84-92).
SecondLoopMatched ==
    /\ world = "links" /\ pc = "second"
    /\ \E link \in run.todo :
          \E pair \in Orientations(link) :
              \E found_ground_truth_link \in
                     look_up(pair[1], pair[2], env.ground_truth,
                             run.used_ground_truth_links) :
                  /\ found_ground_truth_link # None
                  /\ run' = [run EXCEPT
                                !.todo = @ \ {link},
                                !.used_ground_truth_links =
                                    set_add(@, found_ground_truth_link[1]),
                                !.matched = @ + 1]
    /\ UNCHANGED << world, residual_vars, env, order, pos, pc >>

\* A pass of the second loop that finds none (lines 84-88, 93-95).
SecondLoopFalsePositive ==
    /\ world = "links" /\ pc = "second"
    /\ \E link \in run.todo :
          \E pair \in Orientations(link) :
              \E found_ground_truth_link \in
                     look_up(pair[1], pair[2], env.ground_truth,
                             run.used_ground_truth_links) :
                  /\ found_ground_truth_link = None
                  /\ run' = [run EXCEPT !.todo = @ \ {link},
                                        !.false_positives = @ + 1]
    /\ UNCHANGED << world, residual_vars, env, order, pos, pc >>

\* return result
ReturnReport ==
    /\ world = "links" /\ pc = "second" /\ run.todo = {}
    /\ pc' = "returned"
    /\ UNCHANGED << world, residual_vars, env, order, run, pos >>

NextLinks ==
    \/ FirstLoopTruePositive \/ FirstLoopFalseNegative \/ BeginSecondLoop
    \/ SecondLoopMatched \/ SecondLoopFalsePositive \/ ReturnReport
\* One call of compare_links.
SpecLinks == InitLinks /\ [][NextLinks]_vars

(***************************************************************************)
(* The round trip of one cluster through its crop, in floating point.      *)
(*                                                                         *)
(* The mean of a Gaussian is a float and the offset of a crop an integer.  *)
(* A float here has MantissaBits significant bits where a Python float has *)
(* 53; a number is the count of the smallest steps it holds, OneVoxel of   *)
(* them to a voxel.  An addition gives the float nearest to the sum, ties  *)
(* to the even mantissa, as IEEE 754 addition does.                        *)
(***************************************************************************)
RECURSIVE Pow2(_)
Pow2(k) == IF k = 0 THEN 1 ELSE 2 * Pow2(k - 1)

OneVoxel == Pow2(MantissaBits)

\* The distance between neighbouring floats at the magnitude n.
Ulp(n) ==
    IF n < Pow2(MantissaBits) THEN 1
    ELSE CHOOSE u \in {Pow2(k) : k \in 0..(2 * MantissaBits + MaxOffset)} :
             u * Pow2(MantissaBits - 1) <= n /\ n < u * Pow2(MantissaBits)

round_to_float(v) ==
    LET n == Abs(v)
        u == Ulp(n)
        q == n \div u
        r == n % u
        m == IF 2 * r < u THEN q * u
             ELSE IF 2 * r > u THEN (q + 1) * u
             ELSE IF q % 2 = 0 THEN q * u ELSE (q + 1) * u
    IN  IF v >= 0 THEN m ELSE 0 - m

float_add_truncating(a, b) ==
    LET n == Abs(a + b)
        m == (n \div Ulp(n)) * Ulp(n)
    IN  IF a + b >= 0 THEN m ELSE 0 - m
\* a + b of two floats.
float_add(a, b) == round_to_float(a + b)

\* float(i) of a small integer is exact.
float_of_int(i) == i * OneVoxel

\* Gaussian.translated on floats: new_gaussian.mu_x += dx, and so on.
Gaussian_translated_float(g, dx, dy, dz) ==
    LET new_gaussian == GaussianFromList(to_list(g))
    IN  [new_gaussian EXCEPT !.mu_x = float_add(@, float_of_int(dx)),
                             !.mu_y = float_add(@, float_of_int(dy)),
                             !.mu_z = float_add(@, float_of_int(dz))]

\* gaussians = [gaussian.translated(-offset_x, -offset_y, -offset_z) for ...]
to_crop(gaussians, fit_image) ==
    [i \in 1..Len(gaussians) |->
        Gaussian_translated_float(gaussians[i], 0 - fit_image.offset_x,
                                  0 - fit_image.offset_y, 0 - fit_image.offset_z)]

\* for i, gaussian in enumerate(gaussians):
\*     all_gaussians[tags[i]] = gaussian.translated(offset_x, offset_y, offset_z)
from_crop_by_position(all_gaussians, tags, gaussians, fit_image) ==
    [t \in DOMAIN all_gaussians |->
        IF t + 1 \in 1..Len(gaussians)
        THEN Gaussian_translated_float(gaussians[t + 1], fit_image.offset_x,
                                       fit_image.offset_y, fit_image.offset_z)
        ELSE all_gaussians[t]]
from_crop(all_gaussians, tags, gaussians, fit_image) ==
    [t \in DOMAIN all_gaussians |->
        IF \E i \in 1..Len(gaussians) : tags[i] = t
        THEN Gaussian_translated_float(
                 gaussians[SetMax({i \in 1..Len(gaussians) : tags[i] = t})],
                 fit_image.offset_x, fit_image.offset_y, fit_image.offset_z)
        ELSE all_gaussians[t]]

\* The floats from 0 to MaxOffset + 1 voxels: the means of the guesses.
FloatMeans ==
    {v \in 0..((MaxOffset + 1) * OneVoxel) : round_to_float(v) = v}

FloatGuess(mu_x) ==
    Gaussian(OneVoxel, mu_x, 0, 0,
             float_of_int(GuessCovXX), float_of_int(GuessCovYY),
             float_of_int(GuessCovZZ), 0, 0, 0)

\* A cluster of one or two seeds: its guesses, one per tag, in tag order.
RoundTripTags == 0..(MaxSeeds - 1)
RoundTripClusters ==
    {[tags |-> << t >>, guesses |-> << FloatGuess(m) >>] :
        t \in RoundTripTags, m \in FloatMeans}
    \cup {[tags |-> << pair[1], pair[2] >>,
           guesses |-> << FloatGuess(means[1]), FloatGuess(means[2]) >>] :
            pair \in {q \in RoundTripTags \X RoundTripTags : q[1] < q[2]},
            means \in FloatMeans \X FloatMeans}

\* The crop of the cluster: only its offset matters here.
RoundTripCrops ==
    {[offset_x |-> o, offset_y |-> 0, offset_z |-> 0, cropped_image |-> << 1 >>] :
        o \in 0..MaxOffset}

InitRoundTrip ==
    /\ world = "roundtrip"
    /\ \E cluster \in RoundTripClusters, fit_image \in RoundTripCrops,
          answer \in Answers :
          env = [cluster |-> cluster, fit_image |-> fit_image, answer |-> answer]
    /\ run = [all_gaussians |-> [t \in RoundTripTags |-> None],
              outcome |-> "pending", printed |-> << >>]
    /\ pc = "fit"
    /\ original_image = << >> /\ self = << >> /\ junk = 0
    /\ call = NoCall /\ ret = NoRet /\ order = << >> /\ pos = 0

\* What perform_gaussian_mixture_fit gives for the cluster of the behaviour.
RoundTripFit ==
    LET gaussians == to_crop(env.cluster.guesses, env.fit_image)
        oracle == [problem \in {<< astype(env.fit_image.cropped_image),
                                   guesses_to_list(gaussians) >>} |-> env.answer]
    IN  perform_gaussian_mixture_fit(oracle, env.fit_image.cropped_image, gaussians)

\* Lines 124 to 128: the fit succeeds and every Gaussian is stored.
FitStored ==
    /\ world = "roundtrip" /\ pc = "fit"
    /\ RoundTripFit.raised = NoError
    /\ run' = [run EXCEPT
                 !.all_gaussians = from_crop(@, get_tags(env.cluster.tags),
                                             RoundTripFit.gaussians, env.fit_image),
                 !.outcome = "fitted"]
    /\ pc' = "done"
    /\ UNCHANGED << world, original_image, self, junk, call, ret, env, order, pos >>

\* Lines 129 to 131: the fit raises, the cluster is printed and left out.
FitRaised ==
    /\ world = "roundtrip" /\ pc = "fit"
    /\ RoundTripFit.raised = "ValueError"
    /\ run' = [run EXCEPT
                 !.printed = Append(@, "Minimization failed for cluster"),
                 !.outcome = "failed"]
    /\ pc' = "done"
    /\ UNCHANGED << world, original_image, self, junk, call, ret, env, order, pos >>

NextRoundTrip == FitStored \/ FitRaised

\* One cluster taken through lines 121 to 131.
SpecRoundTrip == InitRoundTrip /\ [][NextRoundTrip]_vars

(***************************************************************************)
(* perform_gaussian_mixture_fit_lowres and the perform_gaussian_mixture_fit *)
(* of particle_detection.gaussian_fit it calls.  A volume is the sequence  *)
(* of its slices, a slice the sequence of its rows: image[z][y][x].        *)
(***************************************************************************)
new_size == 64

\* ndarray.shape of a volume: (depth, height, width).
shape(image) == << Len(image), Len(image[1]), Len(image[1][1]) >>

\* cv2.resize(src, dsize=(dsize, dsize), interpolation=cv2.INTER_AREA) for a
\* source whose width and height divide dsize: every source pixel is
\* replicated over the block of destination pixels it covers.
cv2_resize(src, dsize) ==
    [y \in 1..dsize |->
        [x \in 1..dsize |->
            src[((y - 1) * Len(src)) \div dsize + 1]
               [((x - 1) * Len(src[1])) \div dsize + 1]]]

\* new_size / old_size, for an old_size that divides new_size.
true_divide(a, b) == a \div b

\* original_image.ravel()
RECURSIVE Concatenated(_)
Concatenated(rows) ==
    IF rows = << >> THEN << >> ELSE Head(rows) \o Concatenated(Tail(rows))
ravel(image) == Concatenated(Concatenated(image))

\* scipy.optimize.curve_fit(f, pos, image_1d, p0=parameters, maxfev=10000):
\* the coefficients, or the RuntimeError of a fit that did not converge.
curve_fit(answer, image_1d, p0) ==
    CASE answer = "same" -> [raised |-> NoError, coeff |-> p0]
      [] answer = "nudged" -> [raised |-> NoError, coeff |-> Nudged(p0)]
      [] OTHER -> [raised |-> "RuntimeError", coeff |-> << >>]

\* perform_gaussian_mixture_fit of particle_detection.gaussian_fit: what it
\* prints, and the Gaussians it returns or the error it raises.
particle_detection_perform_gaussian_mixture_fit(answer, image, guesses) ==
    LET xsize == shape(image)[3]
        ysize == shape(image)[2]
        zsize == shape(image)[1]
        pixels == xsize * ysize * zsize
        parameters == guesses_to_list(guesses)
        image_1d == ravel(image)
        fit == curve_fit(answer, image_1d, parameters)
    IN  [printed |-> [parameters |-> Len(parameters), pixels |-> pixels],
         raised |-> fit.raised,
         gaussians |-> [n \in 1..(Len(fit.coeff) \div ParamsPerGaussian) |->
                           GaussianFromList(Slice(fit.coeff,
                                                  (n - 1) * ParamsPerGaussian,
                                                  n * ParamsPerGaussian))]]

\* Lines 173 to 178: the resized image and the rescaled guesses.
lowres_prepare(image, guesses) ==
    LET old_size == shape(image)[2]
        new_image == [z \in 1..shape(image)[1] |-> cv2_resize(image[z], new_size)]
    IN  [new_image |-> new_image,
         guesses |-> [i \in 1..Len(guesses) |->
                         scaled(guesses[i], true_divide(new_size, old_size))]]

\* Line 179: the arguments handed to perform_gaussian_mixture_fit.
lowres_fit_arguments_resized(image, guesses) ==
    << lowres_prepare(image, guesses).new_image, lowres_prepare(image, guesses).guesses >>
lowres_fit_arguments(image, guesses) ==
    << image, lowres_prepare(image, guesses).guesses >>

\* Volumes of 1 to MaxDepth slices whose width and height are powers of two,
\* bright at one voxel of the first row, and a uniform volume of one slice
\* that has the low resolution already.
LowresSizes == {Pow2(k) : k \in 0..MaxLog2Size}
LowresVolume(zsize, ysize, xsize, peak_x) ==
    [z \in 1..zsize |->
        [y \in 1..ysize |->
            [x \in 1..xsize |-> IF z = 1 /\ y = 1 /\ x - 1 = peak_x THEN MaxVal ELSE 0]]]
UniformVolume(size, value) ==
    << [y \in 1..size |-> [x \in 1..size |-> value]] >>
LowresVolumes ==
    {LowresVolume(zsize, ysize, xsize, peak_x) :
        zsize \in 1..MaxDepth, ysize \in LowresSizes, xsize \in LowresSizes,
        peak_x \in 0..(SetMax(LowresSizes) - 1)}
    \cup {UniformVolume(new_size, MaxVal)}

\* Guesses at voxels of the volume.
LowresGuesses(image) ==
    LET voxels == {Gaussian(MaxVal, x, y, z, GuessCovXX, GuessCovYY, GuessCovZZ, 0, 0, 0) :
                      x \in {0, shape(image)[3] - 1},
                      y \in {0, shape(image)[2] - 1},
                      z \in 0..(shape(image)[1] - 1)}
    IN  UNION {[1..n -> voxels] : n \in 1..MaxParticles}

InitLowres ==
    /\ world = "lowres"
    /\ original_image \in LowresVolumes
    /\ \E guesses \in LowresGuesses(original_image), answer \in Answers :
          env = [guesses |-> guesses, answer |-> answer]
    /\ call = NoCall /\ ret = NoRet
    /\ run = [printed |-> << >>]
    /\ pc = "call"
    /\ self = << >> /\ junk = 0 /\ order = << >> /\ pos = 0

\* Lines 173 to 179, up to the call of perform_gaussian_mixture_fit and what
\* that prints before the fit.
CallLowres ==
    /\ world = "lowres" /\ pc = "call"
    /\ LET arguments == lowres_fit_arguments(original_image, env.guesses)
           fit == particle_detection_perform_gaussian_mixture_fit(
                      env.answer, arguments[1], arguments[2])
       IN  /\ call' = [name |-> "perform_gaussian_mixture_fit",
                       params |-> arguments, cached_before |-> {}]
           /\ run' = [run EXCEPT !.printed = Append(@, fit.printed)]
    /\ pc' = "fitting"
    /\ UNCHANGED << world, original_image, self, junk, ret, env, order, pos >>

\* curve_fit converges: the Gaussians are returned.
LowresFitReturns ==
    /\ world = "lowres" /\ pc = "fitting"
    /\ LET fit == particle_detection_perform_gaussian_mixture_fit(
                      env.answer, call.params[1], call.params[2])
       IN  /\ fit.raised = NoError
           /\ ret' = [raised |-> NoError, value |-> fit.gaussians]
    /\ pc' = "returned"
    /\ UNCHANGED << world, original_image, self, junk, call, env, order, run, pos >>

\* curve_fit does not converge: its RuntimeError leaves both functions.
LowresFitRaises ==
    /\ world = "lowres" /\ pc = "fitting"
    /\ LET fit == particle_detection_perform_gaussian_mixture_fit(
                      env.answer, call.params[1], call.params[2])
       IN  /\ fit.raised # NoError
           /\ ret' = [raised |-> fit.raised, value |-> None]
    /\ pc' = "raised"
    /\ UNCHANGED << world, original_image, self, junk, call, env, order, run, pos >>

NextLowres == CallLowres \/ LowresFitReturns \/ LowresFitRaises

\* One call of perform_gaussian_mixture_fit_lowres.
SpecLowres == InitLowres /\ [][NextLowres]_vars

InitAll == InitResidual \/ InitOrchestrator
NextResidual == CallDifference \/ CallGradient
NextOrchestrator == SkipCluster \/ FitCluster \/ FailCluster \/ Return

\* Calls on one residual model.
SpecResidual == InitResidual /\ [][NextResidual]_vars
\* One run of the orchestrator.
SpecOrchestrator == InitOrchestrator /\ [][NextOrchestrator]_vars
\* One run of the loop over a clustering that is no partition.
SpecBrokenClustering == InitBrokenClustering /\ [][NextOrchestrator]_vars
\* Either.
Init == InitAll
Next == NextResidual \/ NextOrchestrator
Spec == Init /\ [][Next]_vars

(***************************************************************************)
(* Reference values for the properties of the residual model, computed     *)
(* from the closed form and not through the scratch images or the cache.   *)
(***************************************************************************)
GaussiansOf(params) ==
    [n \in 1..(Len(params) \div ParamsPerGaussian) |->
        GaussianFromList(SubSeq(params, (n - 1) * ParamsPerGaussian + 1,
                                n * ParamsPerGaussian))]

InWindow(g, x, size_x) == x >= WindowLo(g) /\ x < WindowHi(g, size_x)

\* The model sum at voxel x: every Gaussian of params whose window holds x.
ModelSumAt(params, x, size_x) ==
    LET gs == GaussiansOf(params)
    IN  SeqSum([n \in 1..Len(gs) |->
                   IF InWindow(gs[n], x, size_x)
                   THEN gauss3d(x, gs[n].a, gs[n].mu_x, gs[n].cov_xx) ELSE 0])

\* r = model_sum - target, voxel by voxel.
ResidualOf(params, target) ==
    [i \in 1..Len(target) |-> ModelSumAt(params, i - 1, Len(target)) - target[i]]

\* The derivative image of parameter k (0-based, params order).
DerivativeAt(params, k, x, size_x) ==
    LET g == GaussiansOf(params)[k \div ParamsPerGaussian + 1]
    IN  IF InWindow(g, x, size_x)
        THEN gauss3d_gradient(x, g, k % ParamsPerGaussian) ELSE 0

WellFormed(params) == Len(params) % ParamsPerGaussian = 0

Returned == world = "residual" /\ call.name # "" /\ ret.raised = NoError

(***************************************************************************)
(* C8.  difference and gradient are pure functions of params: after any    *)
(* sequence of earlier calls, the value (or the exception) a call gives is *)
(* the one a freshly constructed model of the same target, whatever its    *)
(* uninitialised buffers hold, gives for the same params.                  *)
(***************************************************************************)
C8_PureFunctionOfParams ==
    (world = "residual" /\ call.name # "") =>
        \A fresh_junk \in JunkValues :
            LET fresh == ModelAndImageDifference(original_image, fresh_junk)
                r == IF call.name = "gradient"
                     THEN gradient(fresh, call.params, fresh_junk)
                     ELSE difference_with_image(fresh, call.params)
            IN  r.raised = ret.raised /\ r.value = ret.value

\* A gradient call that found one of its Gaussians in the cache and another
\* one not, and returned a gradient that is not zero.
C8_Witness ==
    /\ Returned
    /\ call.name = "gradient"
    /\ \E n \in DOMAIN GaussiansOf(call.params) :
          GaussiansOf(call.params)[n] \in call.cached_before
    /\ \E n \in DOMAIN GaussiansOf(call.params) :
          GaussiansOf(call.params)[n] \notin call.cached_before
    /\ \E k \in DOMAIN ret.value : ret.value[k] # 0

(***************************************************************************)
(* C9.  Both calls use the residual r = model_sum - target of their        *)
(* params: difference returns the sum of r squared (and leaves r squared   *)
(* in the scratch image), gradient leaves 2 r in the scratch image and     *)
(* returns, for parameter k, the sum of 2 r times the derivative image of  *)
(* parameter k.                                                            *)
(***************************************************************************)
C9_SameResidual ==
    Returned =>
        LET r == ResidualOf(call.params, original_image)
            size_x == Len(original_image)
        IN  IF call.name = "difference_with_image"
            THEN /\ self.scratch_image = [i \in 1..size_x |-> r[i] * r[i]]
                 /\ ret.value = << SeqSum([i \in 1..size_x |-> r[i] * r[i]]) >>
            ELSE /\ self.scratch_image = [i \in 1..size_x |-> 2 * r[i]]
                 /\ Len(ret.value) = Len(call.params)
                 /\ \A k \in 1..Len(call.params) :
                       ret.value[k] =
                           SeqSum([i \in 1..size_x |->
                                      2 * r[i] * DerivativeAt(call.params, k - 1,
                                                              i - 1, size_x)])

\* A gradient call on two Gaussians against a target they do not match,
\* after an earlier call had left other renders in the cache.
C9_Witness ==
    /\ Returned
    /\ call.name = "gradient"
    /\ Len(call.params) = 2 * ParamsPerGaussian
    /\ call.cached_before # {}
    /\ \E i \in 1..Len(original_image) :
          /\ original_image[i] # 0
          /\ ResidualOf(call.params, original_image)[i] # 0

(***************************************************************************)
(* C10.  A parameter vector whose length is no multiple of 10 makes both   *)
(* calls raise: no value is returned, and the exception is not one the     *)
(* handler of the loop over the clusters catches.                          *)
(***************************************************************************)
C10_MalformedRaises ==
    (world = "residual" /\ call.name # "" /\ ~WellFormed(call.params)) =>
        /\ ret.raised # NoError
        /\ ret.value = None
        /\ ~handler_catches(ret.raised)

\* A gradient call on one whole Gaussian followed by half of one.
C10_Witness ==
    /\ world = "residual"
    /\ call.name = "gradient"
    /\ Len(call.params) > ParamsPerGaussian
    /\ ~WellFormed(call.params)
    /\ ret.raised = "TypeError"

(***************************************************************************)
(* Reference values for the properties of the orchestrator, computed from  *)
(* the inputs of the run.                                                  *)
(***************************************************************************)
Orchestrating == world = "orchestrator"
HasReturned == Orchestrating /\ pc = "returned"

ClusterCount == Len(env.ellipse_clusters)
ClusterTags(c) == {env.ellipse_clusters[c][n] : n \in 1..Len(env.ellipse_clusters[c])}
Processed == {run.history[i].cluster : i \in 1..Len(run.history)}
OutcomeOf(c) ==
    run.history[CHOOSE i \in 1..Len(run.history) : run.history[i].cluster = c].outcome
Invoked(name, c) == << name, c >> \in run.calls

IsGaussian(v) ==
    DOMAIN v = {"a", "mu_x", "mu_y", "mu_z", "cov_xx", "cov_yy", "cov_zz",
                "cov_xy", "cov_xz", "cov_yz"}

SeedInside(t) == env.ellipse_stacks[t + 1].x \in 0..(Len(env.image) - 1)

\* The guess for the seed of tag t, in the coordinates of the volume.
GuessFor(t) ==
    LET seed == env.ellipse_stacks[t + 1]
    IN  Gaussian(env.image[seed.x + 1], seed.x, 0, 0,
                 GuessCovXX, GuessCovYY, GuessCovZZ, 0, 0, 0)

\* The cluster's crop as the caller's untouched volume gives it.
CropOf(c) ==
    get_image_for_fit(env.ellipse_stacks, env.ellipse_clusters[c], env.image,
                      env.blur_radius)
CropAbsent(c) == c \in env.no_crop \/ CropOf(c).cropped_image = None

\* What the minimizer answers on the cluster's own fit problem.
AnswerFor(c) ==
    IF c \in env.no_fit THEN "fail"
    ELSE LET guesses == guess_gaussians(env.ellipse_stacks, env.ellipse_clusters[c],
                                        env.image)
             x0 == guesses_to_list([n \in 1..Len(guesses) |->
                       translated(guesses[n], 0 - CropOf(c).offset_x, 0, 0)])
         IN  env.oracle[<< smooth(CropOf(c).cropped_image, env.blur_radius), x0 >>]

\* The run on the same inputs in the order of the list, no cluster forced.
ReferenceRun ==
    run_loop([env EXCEPT !.no_crop = {}, !.no_fit = {}],
             StartOfRun(env.image, env.ellipse_stacks),
             NaturalOrder(ClusterCount), 1)

(***************************************************************************)
(* C1.  The result always has exactly one slot per seed (ellipse stack),   *)
(* every slot is None or one Gaussian, and a filled slot t holds the fit   *)
(* of seed t: the guess made at the centre of seed t as the minimizer      *)
(* returned it, in the coordinates of the volume.  No exception leaves the *)
(* function, whichever clusters are fitted, fail or are skipped.           *)
(***************************************************************************)
C1_OneSlotPerSeed ==
    Orchestrating =>
        /\ DOMAIN run.all_gaussians = TagsOf(env.ellipse_stacks)
        /\ pc # "raised"
        /\ \A t \in TagsOf(env.ellipse_stacks) :
              \/ run.all_gaussians[t] = None
              \/ /\ IsGaussian(run.all_gaussians[t])
                 /\ SeedInside(t)
                 /\ run.all_gaussians[t] \in
                        {GuessFor(t),
                         [GuessFor(t) EXCEPT !.a = @ + 1, !.mu_x = @ + 1]}

\* A returned result of three slots with a fitted, a failed and a skipped
\* cluster, the fitted one not the first of the list.
C1_Witness ==
    /\ HasReturned
    /\ Len(env.ellipse_stacks) = MaxSeeds
    /\ run.all_gaussians[0] = None
    /\ \E t \in TagsOf(env.ellipse_stacks) : run.all_gaussians[t] # None
    /\ \E c \in Processed : OutcomeOf(c) = "failed"
    /\ \E c \in Processed : OutcomeOf(c) = "skipped"

(***************************************************************************)
(* C2.  When the minimizer reports non-success for a cluster, none of the  *)
(* cluster's slots is filled, no exception leaves the function, and every  *)
(* cluster after it in the iteration still gets its pass: it is fitted     *)
(* when its crop is present and the minimizer succeeds on it.              *)
(***************************************************************************)
C2_FailureContained ==
    Orchestrating =>
        \A i \in 1..Len(run.history) :
            (run.history[i].outcome = "failed") =>
                /\ \A t \in ClusterTags(run.history[i].cluster) :
                      run.all_gaussians[t] = None
                /\ pc # "raised"
                /\ run.history[i].cluster = order[i]
                /\ pc = "returned" =>
                      \A j \in (i + 1)..Len(order) :
                          /\ j <= Len(run.history)
                          /\ run.history[j].cluster = order[j]
                          /\ (~CropAbsent(order[j]) /\ AnswerFor(order[j]) # "fail")
                                => /\ run.history[j].outcome = "fitted"
                                   /\ \A t \in ClusterTags(order[j]) :
                                         run.all_gaussians[t] # None

\* A returned run whose first pass failed and whose last pass fitted.
C2_Witness ==
    /\ HasReturned
    /\ Len(run.history) >= 2
    /\ run.history[1].outcome = "failed"
    /\ run.history[Len(run.history)].outcome = "fitted"

(***************************************************************************)
(* C3.  A cluster without a crop is skipped: smoothing, the guesses and    *)
(* the fit are not invoked for it, its slots stay None, no exception       *)
(* leaves the function, and the loop goes on to the next cluster.          *)
(***************************************************************************)
C3_AbsentCropSkipped ==
    Orchestrating =>
        /\ \A c \in Processed :
              CropAbsent(c) =>
                  /\ OutcomeOf(c) = "skipped"
                  /\ ~Invoked("smooth", c)
                  /\ ~Invoked("guess_gaussians", c)
                  /\ ~Invoked("perform_gaussian_mixture_fit", c)
                  /\ \A t \in ClusterTags(c) : run.all_gaussians[t] = None
                  /\ pc # "raised"
        /\ pc = "returned" => Processed = 1..ClusterCount

\* A returned run that skipped its first cluster, whose seeds lie outside
\* the volume, and fitted a later one.
C3_Witness ==
    /\ HasReturned
    /\ env.no_crop = {}
    /\ Len(run.history) >= 2
    /\ run.history[1].outcome = "skipped"
    /\ \E i \in 2..Len(run.history) : run.history[i].outcome = "fitted"

(***************************************************************************)
(* C4.  A run in which one cluster is made to lose its crop or to fail     *)
(* gives every tag outside that cluster the slot that the run on the same  *)
(* inputs without the intervention gives it.                               *)
(***************************************************************************)
C4_FailureDoesNotInterfere ==
    (HasReturned /\ env.no_crop \cup env.no_fit # {}) =>
        \A t \in TagsOf(env.ellipse_stacks) :
            (\A c \in env.no_crop \cup env.no_fit : t \notin ClusterTags(c)) =>
                run.all_gaussians[t] = ReferenceRun.all_gaussians[t]

\* The cluster intervened on is fitted in the reference run and empty here,
\* and a cluster after it, whose crop overlaps its crop, is fitted in both.
C4_Witness ==
    /\ HasReturned
    /\ \E c \in env.no_crop \cup env.no_fit :
          /\ \A t \in ClusterTags(c) :
                /\ ReferenceRun.all_gaussians[t] # None
                /\ run.all_gaussians[t] = None
          /\ \E d \in (c + 1)..ClusterCount :
                /\ OutcomeOf(d) = "fitted"
                /\ CropOf(d).offset_x < CropOf(c).offset_x + Len(CropOf(c).cropped_image)
                /\ CropOf(c).offset_x < CropOf(d).offset_x + Len(CropOf(d).cropped_image)

(***************************************************************************)
(* C5.  The result does not depend on the order in which the loop takes    *)
(* the clusters: a run in any order returns the result of the run in the   *)
(* order of the list.                                                      *)
(***************************************************************************)
C5_OrderIndependent ==
    (HasReturned /\ env.no_crop \cup env.no_fit = {}) =>
        run.all_gaussians = ReferenceRun.all_gaussians

\* A run in another order than the list's over clusters with overlapping
\* crops, two of which are fitted.
C5_Witness ==
    /\ HasReturned
    /\ env.no_crop \cup env.no_fit = {}
    /\ order # NaturalOrder(ClusterCount)
    /\ \E c, d \in 1..ClusterCount :
          /\ c < d
          /\ OutcomeOf(c) = "fitted" /\ OutcomeOf(d) = "fitted"
          /\ CropOf(d).offset_x < CropOf(c).offset_x + Len(CropOf(c).cropped_image)
          /\ CropOf(c).offset_x < CropOf(d).offset_x + Len(CropOf(d).cropped_image)

(***************************************************************************)
(* C6.  The caller's volume is never written: throughout a run of the      *)
(* orchestrator the image holds the samples the caller gave, and through   *)
(* any sequence of calls on a residual model the array it was built from,  *)
(* and its working copy, hold the samples they held at construction.       *)
(***************************************************************************)
C6_CallerImageUntouched ==
    /\ Orchestrating => run.image = env.image
    /\ world = "residual" =>
          /\ original_image \in ResidualTargets
          /\ self.data_image = original_image

\* A returned run that smoothed a crop holding the bright voxel and fitted
\* the cluster.
C6_Witness ==
    /\ HasReturned
    /\ \E c \in Processed :
          /\ OutcomeOf(c) = "fitted"
          /\ Invoked("smooth", c)
          /\ smooth(CropOf(c).cropped_image, env.blur_radius) # CropOf(c).cropped_image

(***************************************************************************)
(* C7.  The clusters partition the seeds: no tag is in two clusters and    *)
(* every tag is in one.                                                    *)
(***************************************************************************)
C7_ClustersPartitionSeeds ==
    Orchestrating =>
        /\ \A c, d \in 1..ClusterCount : c # d => ClusterTags(c) \cap ClusterTags(d) = {}
        /\ \A c \in 1..ClusterCount :
              \A m, n \in 1..Len(env.ellipse_clusters[c]) :
                  env.ellipse_clusters[c][m] = env.ellipse_clusters[c][n] => m = n
        /\ UNION {ClusterTags(c) : c \in 1..ClusterCount} = TagsOf(env.ellipse_stacks)

\* Three seeds in two clusters, the first and the last seed together.
C7_Witness ==
    /\ Orchestrating
    /\ Len(env.ellipse_stacks) = MaxSeeds
    /\ ClusterCount = 2
    /\ ClusterTags(1) = {0, Len(env.ellipse_stacks) - 1}

(***************************************************************************)
(* C11.  If the clustering the loop is given is no partition of the seeds  *)
(* (a tag in no cluster, or in two), the run raises an error to its caller *)
(* and returns no result.                                                  *)
(***************************************************************************)
C11_BrokenClusteringRaises ==
    (Orchestrating /\ ~IsPartition(env.ellipse_stacks, env.ellipse_clusters)) =>
        pc # "returned"

(***************************************************************************)
(* C12.  For a fitted cluster with tags t_0 .. t_(k-1) and minimizer       *)
(* result x of length 10 k, slot t_i holds the Gaussian of x[10 i .. 10 i  *)
(* + 9] with its mean shifted by the offset of the crop, and amplitude and *)
(* covariance as the minimizer returned them.                              *)
(***************************************************************************)
\* What the minimizer returns on the fit problem of cluster c.
MinimizerResult(c) ==
    LET guesses == guess_gaussians(env.ellipse_stacks, env.ellipse_clusters[c],
                                   env.image)
        x0 == guesses_to_list([n \in 1..Len(guesses) |->
                  translated(guesses[n], 0 - CropOf(c).offset_x,
                             0 - CropOf(c).offset_y, 0 - CropOf(c).offset_z)])
    IN  minimize(env.oracle, smooth(CropOf(c).cropped_image, env.blur_radius), x0)

C12_SlotsHoldSplitResult ==
    Orchestrating =>
        \A c \in Processed :
            OutcomeOf(c) = "fitted" =>
                LET x == MinimizerResult(c).x
                    tags == env.ellipse_clusters[c]
                IN  /\ Len(x) = ParamsPerGaussian * Len(tags)
                    /\ \A i \in 0..(Len(tags) - 1) :
                          LET slot == run.all_gaussians[tags[i + 1]]
                              p == [j \in 1..ParamsPerGaussian |->
                                       x[ParamsPerGaussian * i + j]]
                          IN  /\ IsGaussian(slot)
                              /\ slot.a = p[1]
                              /\ slot.mu_x = p[2] + CropOf(c).offset_x
                              /\ slot.mu_y = p[3] + CropOf(c).offset_y
                              /\ slot.mu_z = p[4] + CropOf(c).offset_z
                              /\ << slot.cov_xx, slot.cov_yy, slot.cov_zz,
                                    slot.cov_xy, slot.cov_xz, slot.cov_yz >>
                                     = << p[5], p[6], p[7], p[8], p[9], p[10] >>

\* A fitted cluster of two seeds with different fits, the minimizer result
\* differing from the initial guesses, and a fitted cluster whose crop does
\* not start at the origin.
C12_Witness ==
    /\ HasReturned
    /\ \E c \in Processed :
          /\ OutcomeOf(c) = "fitted"
          /\ CropOf(c).offset_x > 0
          /\ AnswerFor(c) = "nudged"
    /\ \E c \in Processed :
          /\ OutcomeOf(c) = "fitted"
          /\ Len(env.ellipse_clusters[c]) = 2
          /\ AnswerFor(c) = "nudged"
          /\ run.all_gaussians[env.ellipse_clusters[c][1]]
                 # run.all_gaussians[env.ellipse_clusters[c][2]]

(***************************************************************************)
(* C13.  difference is never negative, is 0 exactly when the model sum     *)
(* equals the target at every voxel, is 0 at the parameters of the         *)
(* Gaussian that produced a noiseless target, and is strictly positive at  *)
(* every parameter set whose model sum differs from the target at some     *)
(* voxel.                                                                  *)
(***************************************************************************)
ModelMatchesTarget ==
    \A i \in 1..Len(original_image) : ResidualOf(call.params, original_image)[i] = 0
AtTruth == call.params = to_list(env.truth)

C13_ZeroIffModelMatches ==
    Returned =>
        /\ ret.value[1] >= 0
        /\ ret.value[1] = 0 <=> ModelMatchesTarget
        /\ AtTruth => ret.value[1] = 0
        /\ ~ModelMatchesTarget => ret.value[1] > 0

\* A call at the truth that gives 0 after a call at perturbed parameters,
\* on a target that is not zero.
C13_Witness ==
    /\ Returned
    /\ AtTruth
    /\ env.truth.a # 0
    /\ call.cached_before # {}
    /\ env.truth \notin call.cached_before
    /\ ret.value[1] = 0

\* C13 as stated: strictly positive for any perturbed parameter set.
C13_PerturbedIsPositive ==
    Returned =>
        /\ ret.value[1] >= 0
        /\ ret.value[1] = 0 <=> ModelMatchesTarget
        /\ AtTruth => ret.value[1] = 0
        /\ ~AtTruth => ret.value[1] > 0

(***************************************************************************)
(* C14.  translated and scaled never change a Gaussian in place: after     *)
(* every such call, in every sequence of calls, the receiver (and every    *)
(* other Gaussian that existed) has the ten parameters it had, and the     *)
(* Gaussian returned is a new object.                                      *)
(***************************************************************************)
InBlobs == world = "blobs"
Transformed == InBlobs /\ call.name \in {"translated", "scaled"}

C14_TransformsReturnNewInstance ==
    Transformed =>
        /\ \A object \in 1..Len(call.heap) :
              to_list(self[object]) = to_list(call.heap[object])
        /\ ret.value \notin 1..Len(call.heap)
        /\ ret.value \in 1..Len(self)

\* A translation of a Gaussian that an earlier scaling returned, giving a
\* Gaussian with other parameters than its receiver.
C14_Witness ==
    /\ Transformed
    /\ call.name = "translated"
    /\ call.this > 1
    /\ self[call.this].mu_x # call.heap[1].mu_x
    /\ self[ret.value] # self[call.this]

(***************************************************************************)
(* C15.  draw only adds: every voxel in the window of the Gaussian becomes *)
(* what it held plus the intensity of the Gaussian there, every voxel      *)
(* outside keeps what it held; so the image holds what it held at first    *)
(* plus the sum of the Gaussians drawn, in whichever order they were       *)
(* drawn.                                                                  *)
(***************************************************************************)
IntensityAt(g, x, size_x) ==
    IF InWindow(g, x, size_x) THEN gauss3d(x, g.a, g.mu_x, g.cov_xx) ELSE 0

\* The Gaussians of gs drawn into image, the last one first.
RECURSIVE DrawnLastFirst(_, _)
DrawnLastFirst(image, gs) ==
    IF gs = << >> THEN image
    ELSE DrawnLastFirst(Gaussian_draw(image, gs[Len(gs)]), SubSeq(gs, 1, Len(gs) - 1))

C15_DrawOnlyAdds ==
    InBlobs =>
        LET size_x == Len(original_image)
        IN  /\ call.name = "draw" =>
                  \A x \in 0..(size_x - 1) :
                      original_image[x + 1] =
                          call.image[x + 1] + IntensityAt(self[call.this], x, size_x)
            /\ \A x \in 0..(size_x - 1) :
                  original_image[x + 1] =
                      run.background[x + 1]
                          + SeqSum([n \in 1..Len(run.drawn) |->
                                       IntensityAt(run.drawn[n], x, size_x)])
            /\ original_image = DrawnLastFirst(run.background, run.drawn)

\* Two different Gaussians drawn into a zeroed image, a voxel in both
\* windows where both are not zero and a voxel outside the second window.
C15_Witness ==
    /\ InBlobs
    /\ call.name = "draw"
    /\ Len(run.drawn) = 2
    /\ run.drawn[1] # run.drawn[2]
    /\ \A x \in 1..Len(run.background) : run.background[x] = 0
    /\ \E x \in 0..(Len(original_image) - 1) :
          /\ IntensityAt(run.drawn[1], x, Len(original_image)) > 0
          /\ IntensityAt(run.drawn[2], x, Len(original_image)) > 0
    /\ \E x \in 0..(Len(original_image) - 1) :
          /\ ~InWindow(run.drawn[2], x, Len(original_image))
          /\ original_image[x + 1] # 0

(***************************************************************************)
(* C19.  Translation law: when the windows of a Gaussian and of its        *)
(* translation by (dx, 0, 0) lie inside the image, drawing the translated  *)
(* Gaussian into a zeroed image gives the image of the Gaussian shifted by *)
(* dx voxels.                                                              *)
(***************************************************************************)
WindowInside(g, size_x) ==
    /\ g.mu_x - WindowSigmas * g.cov_xx >= 0
    /\ g.mu_x + WindowSigmas * g.cov_xx <= size_x

\* image moved by dx voxels, zero where nothing moves in.
Shifted(image, dx) ==
    [i \in 1..Len(image) |-> IF i - dx \in 1..Len(image) THEN image[i - dx] ELSE 0]

ZeroedImage == [i \in 1..CanvasX |-> 0]

C19_TranslationLaw ==
    (InBlobs /\ call.name = "translated") =>
        LET g == call.heap[call.this]
            moved == self[ret.value]
        IN  (WindowInside(g, CanvasX) /\ WindowInside(moved, CanvasX)) =>
                Gaussian_draw(ZeroedImage, moved)
                    = Shifted(Gaussian_draw(ZeroedImage, g), call.args[1])

\* A translation to the left between two windows inside the image, of a
\* Gaussian that a translation to the right returned.
C19_Witness ==
    /\ InBlobs
    /\ call.name = "translated"
    /\ call.args[1] < 0
    /\ call.this > 1
    /\ WindowInside(call.heap[call.this], CanvasX)
    /\ WindowInside(self[ret.value], CanvasX)
    /\ Gaussian_draw(ZeroedImage, self[ret.value]) # ZeroedImage
    /\ Gaussian_draw(ZeroedImage, self[ret.value])
           # Gaussian_draw(ZeroedImage, call.heap[call.this])

(***************************************************************************)
(* C20.  scaled(s) returns a Gaussian whose mean is s times the mean of    *)
(* the receiver, translated(dx, dy, dz) one whose mean is the mean of the  *)
(* receiver plus (dx, dy, dz); amplitude and the six covariance entries    *)
(* are those of the receiver in both.                                      *)
(***************************************************************************)
ShapeOf(g) == << g.a, g.cov_xx, g.cov_yy, g.cov_zz, g.cov_xy, g.cov_xz, g.cov_yz >>

C20_TransformedParameters ==
    Transformed =>
        LET g == call.heap[call.this]
            new_gaussian == self[ret.value]
        IN  /\ ShapeOf(new_gaussian) = ShapeOf(g)
            /\ call.name = "scaled" =>
                  << new_gaussian.mu_x, new_gaussian.mu_y, new_gaussian.mu_z >>
                      = << call.args[1] * g.mu_x, call.args[1] * g.mu_y,
                           call.args[1] * g.mu_z >>
            /\ call.name = "translated" =>
                  << new_gaussian.mu_x, new_gaussian.mu_y, new_gaussian.mu_z >>
                      = << g.mu_x + call.args[1], g.mu_y + call.args[2],
                           g.mu_z + call.args[3] >>

\* A scaling by 2 of a Gaussian that a translation returned.
C20_Witness ==
    /\ Transformed
    /\ call.name = "scaled"
    /\ call.args[1] = 2
    /\ call.this > 1
    /\ call.heap[call.this].mu_x = call.heap[1].mu_x + 1
    /\ self[ret.value].mu_x # call.heap[call.this].mu_x

(***************************************************************************)
(* C16.  Two seeds are in the same cluster if and only if a chain of       *)
(* pairwise overlapping seeds connects them; a seed that overlaps no other *)
(* seed is a cluster of its own.                                           *)
(***************************************************************************)
Partitioned == world = "partitioner" /\ pc = "returned"

SeedOverlap(s, t) == Overlaps(env.ellipse_stacks[s + 1], env.ellipse_stacks[t + 1])

\* A chain s = p_1, p_2, .. p_n = t of tags, each overlapping the next.
ChainBetween(s, t) ==
    \E n \in 1..Len(env.ellipse_stacks) :
        \E path \in [1..n -> TagsOf(env.ellipse_stacks)] :
            /\ path[1] = s /\ path[n] = t
            /\ \A i \in 1..(n - 1) : SeedOverlap(path[i], path[i + 1])

SameCluster(s, t) ==
    \E c \in 1..Len(env.ellipse_clusters) :
        /\ \E m \in 1..Len(env.ellipse_clusters[c]) : env.ellipse_clusters[c][m] = s
        /\ \E m \in 1..Len(env.ellipse_clusters[c]) : env.ellipse_clusters[c][m] = t

C16_ClustersAreComponents ==
    Partitioned =>
        /\ \A s, t \in TagsOf(env.ellipse_stacks) : SameCluster(s, t) <=> ChainBetween(s, t)
        /\ \A s \in TagsOf(env.ellipse_stacks) :
              (\A t \in TagsOf(env.ellipse_stacks) \ {s} : ~SeedOverlap(s, t)) =>
                  \E c \in 1..Len(env.ellipse_clusters) : env.ellipse_clusters[c] = << s >>

\* Three seeds in a chain whose ends do not overlap, in one cluster; and
\* (in another run) a seed apart from two overlapping ones.
C16_Witness ==
    /\ Partitioned
    /\ Len(env.ellipse_stacks) = 3
    /\ SeedOverlap(0, 2) /\ SeedOverlap(2, 1) /\ ~SeedOverlap(0, 1)
    /\ Len(env.ellipse_clusters) = 1

(***************************************************************************)
(* C17.  After set_intensities(position_data, intensities, volumes) with   *)
(* equal key sets, get_intensity_per_pixel(position_data, p) returns       *)
(* intensities[p] / volumes[p] for every position p of the dicts, and None *)
(* for a position with no registered intensity or volume.                  *)
(***************************************************************************)
C17_IntensityPerPixel ==
    (world = "markers" /\ call.name = "get_intensity_per_pixel") =>
        IF call.position \in DOMAIN env.intensities
        THEN /\ ret.raised = NoError
             /\ ret.value # None
             /\ ret.value.num * env.volumes[call.position]
                    = env.intensities[call.position] * ret.value.den
        ELSE ret.raised = NoError /\ ret.value = None

(***************************************************************************)
(* C18.  gradient(params) for k Gaussians returns exactly 10 k entries, in *)
(* the order of params: entry 10 i + j is 2 times the sum over the voxels  *)
(* of r times the derivative of the model to parameter j of Gaussian i.    *)
(* Every entry is written: none holds what the uninitialised result array  *)
(* held.                                                                   *)
(***************************************************************************)
\* The derivative of the model to parameter j of g at voxel x.
ModelDerivative(g, j, x, size_x) ==
    IF InWindow(g, x, size_x) THEN gauss3d_gradient(x, g, j) ELSE 0

C18_GradientOrdering ==
    (Returned /\ call.name = "gradient") =>
        LET k == Len(call.params) \div ParamsPerGaussian
            size_x == Len(original_image)
            r == ResidualOf(call.params, original_image)
        IN  /\ Len(ret.value) = ParamsPerGaussian * k
            /\ \A i \in 0..(k - 1), j \in 0..(ParamsPerGaussian - 1) :
                  ret.value[ParamsPerGaussian * i + j + 1] =
                      2 * SeqSum([x \in 1..size_x |->
                                     r[x] * ModelDerivative(GaussiansOf(call.params)[i + 1],
                                                            j, x - 1, size_x)])

\* A gradient of two different Gaussians, the uninitialised memory not
\* zero, with entries of the second Gaussian that are not zero and differ
\* from those of the first.
C18_Witness ==
    /\ Returned
    /\ call.name = "gradient"
    /\ junk # 0
    /\ Len(call.params) = 2 * ParamsPerGaussian
    /\ GaussiansOf(call.params)[1] # GaussiansOf(call.params)[2]
    /\ \E j \in 1..ParamsPerGaussian :
          /\ ret.value[ParamsPerGaussian + j] # 0
          /\ ret.value[ParamsPerGaussian + j] # ret.value[j]
    /\ \E j \in 1..ParamsPerGaussian : ret.value[ParamsPerGaussian + j] # junk

(***************************************************************************)
(* C21.  draw keeps to the window mu +/- 3 sigma clipped to the image: for *)
(* every Gaussian, one with its mean outside the image included, the       *)
(* window's lower bound does not exceed its upper bound, both lie in the   *)
(* image, every voxel read or written lies in the image and in the window, *)
(* and the call completes.                                                 *)
(***************************************************************************)
C21_WindowClipped ==
    (world = "anywhere" /\ call.name = "draw") =>
        /\ 0 <= call.offset_x
        /\ call.offset_x <= call.max_x
        /\ call.max_x <= Len(original_image)
        /\ \A x \in call.addressed :
              /\ 0 <= x /\ x < Len(original_image)
              /\ call.offset_x <= x /\ x < call.max_x
        /\ ret.raised = NoError

(***************************************************************************)
(* C22.  Coherence of the render cache: after every evaluation that        *)
(* returns, the cache holds one entry per distinct Gaussian of the         *)
(* parameter vector just evaluated and no other entry, and every entry is  *)
(* the render of its own key, whether it was taken over from the           *)
(* evaluation before (all 10 parameters equal) or rendered anew; entries   *)
(* of Gaussians that are not in the vector are dropped.                    *)
(***************************************************************************)
BlobsOf(params) == {GaussiansOf(params)[n] : n \in DOMAIN GaussiansOf(params)}

C22_CacheCoherent ==
    Returned =>
        /\ DOMAIN self.last_gaussians = BlobsOf(call.params)
        /\ \A key \in DOMAIN self.last_gaussians :
              self.last_gaussians[key] = Render(key, Len(original_image))

\* An evaluation of two Gaussians, one found in the cache and one not, that
\* drops an entry of the evaluation before whose mean equals the mean of
\* the Gaussian that was not found.
C22_Witness ==
    /\ Returned
    /\ Len(call.params) = 2 * ParamsPerGaussian
    /\ \E reused \in BlobsOf(call.params) : reused \in call.cached_before
    /\ \E fresh \in BlobsOf(call.params) :
          /\ fresh \notin call.cached_before
          /\ \E dropped \in call.cached_before :
                /\ dropped \notin DOMAIN self.last_gaussians
                /\ dropped.mu_x = fresh.mu_x
                /\ Render(dropped, Len(original_image))
                       # Render(fresh, Len(original_image))

(***************************************************************************)
(* C23.  Every slot of the result is written at most once in a run, and    *)
(* only in the pass of the one cluster that holds its tag: no pass writes  *)
(* the slot of a tag that is not in its cluster, and a slot is filled only *)
(* by such a write.                                                        *)
(***************************************************************************)
WritesTo(t) == {i \in 1..Len(run.writes) : run.writes[i].tag = t}

C23_SingleWriterPerSlot ==
    Orchestrating =>
        \A t \in TagsOf(env.ellipse_stacks) :
            /\ Cardinality(WritesTo(t)) <= 1
            /\ \A i \in WritesTo(t) :
                  /\ t \in ClusterTags(run.writes[i].cluster)
                  /\ \A c \in 1..ClusterCount :
                        t \in ClusterTags(c) => c = run.writes[i].cluster
                  /\ run.writes[i].cluster \in Processed
                  /\ OutcomeOf(run.writes[i].cluster) = "fitted"
            /\ run.all_gaussians[t] # None <=> WritesTo(t) # {}

\* A returned run, taken in another order than the list's, in which a
\* cluster of two seeds and a cluster of one seed are fitted, the tags of
\* the first not next to each other.
C23_Witness ==
    /\ HasReturned
    /\ order # NaturalOrder(ClusterCount)
    /\ Len(run.writes) = MaxSeeds
    /\ \E c \in Processed :
          /\ OutcomeOf(c) = "fitted"
          /\ ClusterTags(c) = {0, MaxSeeds - 1}
    /\ \E c \in Processed :
          /\ OutcomeOf(c) = "fitted"
          /\ ClusterTags(c) = {1}

(***************************************************************************)
(* C24.  When the minimization of a cluster fails, a record is printed     *)
(* that holds the cluster and the message of the minimizer.                *)
(***************************************************************************)
\* The message the minimizer gave on the fit problem of cluster c.
MinimizerMessage(c) ==
    IF c \in env.no_fit
    THEN minimize(<< >>, << >>, << >>).message
    ELSE MinimizerResult(c).message

\* A printed record is the sequence of its parts: a text, then the cluster
\* it is about, then whatever else was printed with it.
RecordsAbout(cluster) ==
    {k \in 1..Len(run.stdout) :
        Len(run.stdout[k]) >= 2 /\ run.stdout[k][2] = cluster}

C24_FailureLogHasMessage ==
    Orchestrating =>
        \A c \in Processed :
            OutcomeOf(c) = "failed" =>
                \E k \in RecordsAbout(env.ellipse_clusters[c]) :
                    \E part \in 3..Len(run.stdout[k]) :
                        run.stdout[k][part] = MinimizerMessage(c)

(***************************************************************************)
(* C25.  particles_to_gaussians gives one guess per particle, in the order *)
(* of the particles: its mean is the position (x, y, z) of the particle,   *)
(* its covariance (15, 15, 3, 0, 0, 0), and, for a particle whose centre   *)
(* lies inside the image, its amplitude the sample of voxel (int z, int y, *)
(* int x).  With every particle inside the image the call returns.         *)
(***************************************************************************)
Guessed == world = "guesses" /\ pc = "returned"

\* The centre (in halves) lies inside the volume on every axis.
CentreInside(particle) ==
    /\ particle.x >= 0 /\ particle.x < 2 * ShapeX
    /\ particle.y >= 0 /\ particle.y < 2 * ShapeY
    /\ particle.z >= 0 /\ particle.z < 2

\* The voxel that holds a centre inside the volume.
VoxelOf(particle) ==
    [x |-> CHOOSE x \in 0..(ShapeX - 1) : 2 * x <= particle.x /\ particle.x < 2 * x + 2,
     y |-> CHOOSE y \in 0..(ShapeY - 1) : 2 * y <= particle.y /\ particle.y < 2 * y + 2,
     z |-> 0]

C25_GuessPerSeed ==
    Guessed =>
        /\ (\A n \in 1..Len(env.particles) : CentreInside(env.particles[n]))
              => ret.raised = NoError
        /\ ret.raised = NoError =>
              /\ Len(ret.value) = Len(env.particles)
              /\ \A n \in 1..Len(env.particles) :
                    LET particle == env.particles[n]
                        guess == ret.value[n]
                        voxel == VoxelOf(particle)
                    IN  /\ << guess.mu_x, guess.mu_y, guess.mu_z >>
                               = << particle.x, particle.y, particle.z >>
                        /\ << guess.cov_xx, guess.cov_yy, guess.cov_zz,
                              guess.cov_xy, guess.cov_xz, guess.cov_yz >>
                               = << 15, 15, 3, 0, 0, 0 >>
                        /\ CentreInside(particle) =>
                              guess.a = original_image[voxel.z + 1][voxel.y + 1][voxel.x + 1]

\* Two particles inside the image at different places, the second between
\* voxels on both axes and on the bright voxel, the first on a dark one.
C25_Witness ==
    /\ Guessed
    /\ ret.raised = NoError
    /\ Len(env.particles) = 2
    /\ CentreInside(env.particles[1]) /\ CentreInside(env.particles[2])
    /\ env.particles[2].x % 2 = 1 /\ env.particles[2].y % 2 = 1
    /\ env.particles[2].x > 1
    /\ ret.value[1].a = 0
    /\ ret.value[2].a = MaxVal

(***************************************************************************)
(* C26.  The two loops of compare_links agree on the true positives: the   *)
(* number of scratch links for which the second loop finds a ground truth  *)
(* link is the number of ground truth links the first loop reported as     *)
(* correctly detected, so the true positives and the made up links         *)
(* together are as many as the scratch links.                              *)
(***************************************************************************)
Compared == world = "links" /\ pc = "returned"

C26_LoopsAgreeOnTruePositives ==
    Compared =>
        /\ run.matched = run.true_positives
        /\ run.true_positives + run.false_positives = Cardinality(env.scratch.links)

(***************************************************************************)
(* C29.  The first loop of compare_links matches injectively: no scratch   *)
(* link, whichever of its ends comes first, justifies more than one true   *)
(* positive.  Every link used is a link of the scratch experiment, the set *)
(* of used links holds each of them once, and a _Link equals, and hashes   *)
(* the same as, the _Link with pos1 and pos2 swapped.                      *)
(***************************************************************************)
\* The link of the experiment that a _Link object stands for.
EndsOf(link) == {link.pos1, link.pos2}

C29_FirstLoopInjective ==
    world = "links" =>
        /\ Cardinality({EndsOf(link) : link \in run.used_scratch_links})
               = run.true_positives
        /\ \A link \in run.used_scratch_links :
              /\ EndsOf(link) \in env.scratch.links
              /\ Link_eq(link, Link(link.pos2, link.pos1))
              /\ Link_hash(link) = Link_hash(Link(link.pos2, link.pos1))
              /\ \A other \in run.used_scratch_links :
                    EndsOf(other) = EndsOf(link) => other = link

\* Two ground truth links and one scratch link that either of them would
\* find with no link forbidden: the first loop reported one of them as
\* correctly detected and refused the used link to the other.
C29_Witness ==
    /\ world = "links"
    /\ Cardinality(env.ground_truth.links) = 2
    /\ Cardinality(env.scratch.links) = 1
    /\ run.true_positives = 1
    /\ run.false_negatives = 1
    /\ \A link \in env.ground_truth.links :
          \A pair \in Orientations(link) :
              None \notin look_up(pair[1], pair[2], env.scratch, {})

(***************************************************************************)
(* C27.  The fit of a cluster is all or nothing: after every pass of the   *)
(* loop, and so when the run returns, either every slot of the tags of a   *)
(* cluster is filled or none is.  A fitted cluster has all its slots       *)
(* filled, a failed or skipped one none.                                   *)
(***************************************************************************)
C27_AllOrNothing ==
    Orchestrating =>
        \A c \in 1..ClusterCount :
            /\ \/ \A t \in ClusterTags(c) : run.all_gaussians[t] # None
               \/ \A t \in ClusterTags(c) : run.all_gaussians[t] = None
            /\ c \in Processed =>
                  \A t \in ClusterTags(c) :
                      run.all_gaussians[t] # None <=> OutcomeOf(c) = "fitted"

\* A returned run with a fitted cluster of two seeds and a failed cluster.
C27_Witness ==
    /\ HasReturned
    /\ \E c \in Processed :
          /\ OutcomeOf(c) = "fitted"
          /\ Cardinality(ClusterTags(c)) = 2
          /\ \A t \in ClusterTags(c) : run.all_gaussians[t] # None
    /\ \E c \in Processed :
          /\ OutcomeOf(c) = "failed"
          /\ \A t \in ClusterTags(c) : run.all_gaussians[t] = None

(***************************************************************************)
(* C28.  Round trip through the crop.  When the minimizer succeeds and     *)
(* returns its initial vector unchanged, the i-th guess of the cluster is  *)
(* stored under its i-th tag with amplitude and covariance unchanged and   *)
(* with a mean that is the guess's mean translated by -offset and then by  *)
(* +offset in floating point: equal to the guess's mean whenever           *)
(* mean - offset is a float (as it is for whole-voxel means), and          *)
(* otherwise off by at most the rounding of the two additions.             *)
(***************************************************************************)
RoundTripped ==
    /\ world = "roundtrip" /\ pc = "done"
    /\ run.outcome = "fitted" /\ env.answer = "same"

SlotOf(i) == run.all_gaussians[env.cluster.tags[i]]

LowresCalled == world = "lowres" /\ pc \in {"fitting", "returned", "raised"}

InsideImage(g, image) ==
    /\ g.mu_z \in 0..(shape(image)[1] - 1)
    /\ g.mu_y \in 0..(shape(image)[2] - 1)
    /\ g.mu_x \in 0..(shape(image)[3] - 1)

LowresOnePerGuess ==
    world = "lowres" /\ pc = "returned" =>
        /\ Len(ret.value) = Len(env.guesses)
        /\ \A i \in 1..Len(env.guesses) :
              ret.value[i] =
                  IF env.answer = "same" THEN call.params[2][i]
                  ELSE GaussianFromList(Nudged(to_list(call.params[2][i])))

C30_LowresFitsResized ==
    LowresCalled =>
        /\ shape(call.params[1]) = << shape(original_image)[1], new_size, new_size >>
        /\ call.params[1] = lowres_prepare(original_image, env.guesses).new_image
        /\ call.params[2] = lowres_prepare(original_image, env.guesses).guesses
        /\ \A i \in 1..Len(env.guesses) :
              InsideImage(env.guesses[i], original_image)
                  => InsideImage(call.params[2][i], call.params[1])
        /\ LowresOnePerGuess

\* The same statement for the volumes that have the low resolution already.
LowresFitsResizedAtFullSize ==
    shape(original_image)[2] = new_size /\ shape(original_image)[3] = new_size
        => C30_LowresFitsResized

====
